---------------------------- MODULE Spec2Model ----------------------------
(***************************************************************************)
(* goProbe: the per-interface capture state machine (capture.go) and the   *)
(* block file (pkg/goDB/GPFile.go).                                        *)
(*                                                                         *)
(* Two state machines share this module.  Spec / FairSpec run the capture  *)
(* (FSM worker, packet-processing tasks, callers of the public methods);   *)
(* GPSpec runs one block file (Open, WriteTimedBlock, ReadTimedBlock,      *)
(* Close, crash).  Each specification leaves the other machine's variables *)
(* at their initial values.                                                *)
(***************************************************************************)
EXTENDS Integers, Sequences, FiniteSets, TLC

-----------------------------------------------------------------------------
(* Bounds of the model *)

\* calls of public methods issued in one behaviour
MaxCalls == 2
\* Update calls issued in one behaviour (each may re-initialise the capture)
MaxUpdates == 1
\* packet events (one packet, or one run of malformed packets) per behaviour
MaxPktEvents == 2
\* WriteTimedBlock calls in one behaviour that get past opening the file
MaxWrites == 2

-----------------------------------------------------------------------------
(* Program constants of capture.go *)

ErrorThreshold == 10000

\* State
StateUnset == "Unset"
StateInitializing == "StateInitializing"
StateCapturing == "StateCapturing"
StateClosing == "StateClosing"
StateError == "StateError"

\* config.CaptureConfig values (compared with == by needReinitialization)
Configs == {"cfgA", "cfgB"}

\* the nil capture.Source
NilHandle == 0

\* the goroutines calling the public methods
Callers == {1, 2}
NoCaller == 0
\* one packet task is started by every entry into capturing, and capturing
\* is entered at most once per initializing
MaxInits == MaxUpdates + 1
Procs == 1..MaxInits
Handles == 1..MaxInits

\* the command types of the public methods
CmdTypes == {"Status", "Errors", "Flows", "Rotate", "Update"}
Commands == [type : CmdTypes \ {"Update"}, cfg : {"cfgA"}]
              \cup [type : {"Update"}, cfg : Configs]

\* lengths of the runs of malformed packets the ring buffer delivers
RunLengths == {ErrorThreshold}

VARIABLES
  \* ---- Capture fields
  state,              \* c.state
  closed,             \* c.closed
  config,             \* c.config
  captureHandle,      \* c.captureHandle (NilHandle or a handle id)
  cmdChanClosed,      \* close(c.cmdChan) has run
  mutex,              \* holder of c.mutex (NoCaller when free)
  lastRotationStats,  \* c.lastRotationStats: [received, logged]
  packetsLogged,      \* c.packetsLogged
  flowLog,            \* packets held by c.flowLog (FlowLog itself: see FlowLog*)
  errMap,             \* c.errMap: number of decode errors recorded
  errMapId,           \* the map object c.errMap refers to
  ctxDone,            \* c.ctx is cancelled
  \* ---- capture sources
  handleClosed,       \* set of handles on which Close() was called
  nHandles,           \* handles created so far
  srcReceived,        \* packets the open source has delivered (Stats)
  \* ---- FSM worker (the goroutine in Run)
  fsmPc,
  fsmCmd,             \* the command the worker received and its sender
  rotateResult,       \* result and stats of captureCommandRotate.execute
  \* ---- packet tasks (goroutines running process)
  procPc,
  procHandle,         \* handle the task is blocked on in NextPacket
  errcount,           \* process' local errcount
  nProcs,
  pktEvents,
  \* ---- callers of the public methods
  callerPc,
  callerCmd,
  reply,              \* content of the call's buffered return channel
  errorsResult,       \* the map the caller's last Errors call returned
  callsLeft,
  updatesLeft,
  \* ---- block file
  disk,               \* the file in the file system
  gpf,                \* the GPFile object of the process
  gpLast,             \* result of the last call on gpf
  gpHist,             \* what was written to the file so far (history)
  \* ---- flow log and packet classifier
  flowMap,            \* the live map of the FlowLog: key -> flow
  aggMap,             \* the map the last Rotate returned
  flHist,             \* the calls made on the FlowLog (history)
  pkt,                \* the packet handed to the classifier
  cls,                \* what the classifier returned for pkt
  \* ---- status API
  captureManager,     \* the interfaces the capture manager holds a capture for
  resp                \* the response of the last status request

capVars == <<state, closed, config, captureHandle, cmdChanClosed, mutex,
             lastRotationStats, packetsLogged, flowLog, errMap, errMapId,
             ctxDone>>
srcVars == <<handleClosed, nHandles, srcReceived>>
fsmVars == <<fsmPc, fsmCmd, rotateResult>>
procVars == <<procPc, procHandle, errcount, nProcs, pktEvents>>
callVars == <<callerPc, callerCmd, reply, errorsResult, callsLeft,
              updatesLeft>>
gpVars == <<disk, gpf, gpLast, gpHist>>
flVars == <<flowMap, aggMap, flHist, pkt, cls>>
apiVars == <<captureManager, resp>>
vars == <<capVars, srcVars, fsmVars, procVars, callVars, gpVars, flVars,
         apiVars>>

-----------------------------------------------------------------------------
(* capture.go: construction *)

\* an empty return channel (ref: the map object an ErrorMap refers to, agg
\* its content when it was sent)
NoReply == [kind |-> "none", state |-> StateUnset, received |-> 0,
            logged |-> 0, agg |-> 0, ref |-> 0]
\* the caller holds no ErrorMap (count: the content of the map when Errors
\* returned it)
NoErrors == [ref |-> 0, count |-> 0]
\* no call in progress (id: the number of the call, every call makes its own
\* return channel or update context)
NoCommand == [type |-> "none", cfg |-> "cfgA", id |-> 0]
\* no command received by the worker (from: the caller that sent it)
NoCmd == [from |-> NoCaller, type |-> "none", cfg |-> "cfgA", id |-> 0]

\* captureCommandRotate.execute has not built its result (stats: the copy of
\* the source's counters kept for lastRotationStats)
NoRotateResult == [received |-> 0, logged |-> 0, agg |-> 0, stats |-> 0]

\* NewCapture
NewCapture ==
  /\ state = StateUnset
  /\ closed = FALSE
  /\ config = "cfgA"
  /\ captureHandle = NilHandle
  /\ cmdChanClosed = FALSE
  /\ mutex = NoCaller
  /\ lastRotationStats = [received |-> 0, logged |-> 0]
  /\ packetsLogged = 0
  /\ flowLog = 0
  /\ errMap = 0
  /\ errMapId = 1
  /\ ctxDone = FALSE
  /\ handleClosed = {}
  /\ nHandles = 0
  /\ srcReceived = 0
  /\ fsmPc = "new"
  /\ fsmCmd = NoCmd
  /\ rotateResult = NoRotateResult
  /\ procPc = [p \in Procs |-> "none"]
  /\ procHandle = [p \in Procs |-> NilHandle]
  /\ errcount = [p \in Procs |-> 0]
  /\ nProcs = 0
  /\ pktEvents = 0
  /\ callerPc = [c \in Callers |-> "idle"]
  /\ callerCmd = [c \in Callers |-> NoCommand]
  /\ reply = [c \in Callers |-> NoReply]
  /\ errorsResult = [c \in Callers |-> NoErrors]
  /\ callsLeft = MaxCalls
  /\ updatesLeft = MaxUpdates

-----------------------------------------------------------------------------
(* capture.go: utilities *)

\* An unrecovered panic of any goroutine ends the program
Alive ==
  /\ \A p \in Procs : procPc[p] # "panic"
  /\ \A c \in Callers : callerPc[c] # "panic"

\* every Update re-initialises the capture
needReinitializationAlways(cfg) == TRUE

\* needReinitialization: c.config != config
needReinitialization(cfg) == config # cfg

\* tryGetCaptureStats: the source's counters, zero without a source
tryGetCaptureStats ==
  IF captureHandle # NilHandle THEN srcReceived ELSE 0

\* a reset that zeroes all of lastRotationStats
resetAllStats ==
  /\ handleClosed' = IF captureHandle # NilHandle
                        THEN handleClosed \cup {captureHandle}
                        ELSE handleClosed
  /\ lastRotationStats' = [received |-> 0, logged |-> 0]
  /\ captureHandle' = NilHandle
  /\ errMap' = 0
  /\ errMapId' = errMapId + 1

\* reset: close and drop the capture source, zero the source part of
\* lastRotationStats, install a fresh error map
reset ==
  /\ handleClosed' = IF captureHandle # NilHandle
                        THEN handleClosed \cup {captureHandle}
                        ELSE handleClosed
  /\ lastRotationStats' = [lastRotationStats EXCEPT !.received = 0]
  /\ captureHandle' = NilHandle
  /\ errMap' = 0
  /\ errMapId' = errMapId + 1

\* every state function ends after a command that yields no next state
afterCommandReturning(nextState) ==
  IF nextState # "nil" THEN nextState ELSE "returned"

\* The state function the worker runs after a command was executed.
\* capturing: a command without next state falls out of the select and the
\* function returns nil, which ends the loop of Run.  inError: the for loop
\* goes back to its select.
afterCommand(nextState) ==
  IF nextState # "nil" THEN nextState
  ELSE IF state = StateCapturing THEN "returned"
  ELSE "inErrorSelect"

\* initializing without its error branch: capturing follows in any case
initializingIgnoringError(created) == "capturing"

\* initializing: the state function that follows, by the outcome of
\* afpacket.NewRingBufSource
initializingNext(created) == IF created THEN "capturing" ELSE "inError"

-----------------------------------------------------------------------------
(* capture.go: the FSM worker *)

\* Run: refuses a closed capture, else starts the loop with initializing
Run ==
  /\ fsmPc = "new"
  /\ Alive
  /\ fsmPc' = IF closed THEN "returned" ELSE "initializing"
  /\ UNCHANGED <<capVars, srcVars, fsmCmd, rotateResult, procVars, callVars,
                 gpVars, flVars, apiVars>>

\* initializing: setState, create the packet source
initializing(created) ==
  /\ fsmPc = "initializing"
  /\ Alive
  /\ nHandles < MaxInits
  /\ state' = StateInitializing
  /\ nHandles' = nHandles + 1
  /\ captureHandle' = IF created THEN nHandles + 1 ELSE NilHandle
  /\ srcReceived' = 0
  /\ fsmPc' = initializingNext(created)
  /\ UNCHANGED <<closed, config, cmdChanClosed, mutex, lastRotationStats,
                 packetsLogged, flowLog, errMap, errMapId, ctxDone,
                 handleClosed, fsmCmd, rotateResult, procVars, callVars,
                 gpVars, flVars, apiVars>>

\* capturing, up to its select: setState, go c.process()
capturing ==
  /\ fsmPc = "capturing"
  /\ Alive
  /\ state' = StateCapturing
  /\ nProcs' = nProcs + 1
  /\ procPc' = [procPc EXCEPT ![nProcs + 1] = "loop"]
  /\ errcount' = [errcount EXCEPT ![nProcs + 1] = 0]
  /\ fsmPc' = "capturingSelect"
  /\ UNCHANGED <<closed, config, captureHandle, cmdChanClosed, mutex,
                 lastRotationStats, packetsLogged, flowLog, errMap, errMapId,
                 ctxDone, srcVars, fsmCmd, rotateResult, procHandle,
                 pktEvents, callVars, gpVars, flVars, apiVars>>

\* cmd := <-c.cmdChan: the command caller c is sending
received(c) ==
  [from |-> c, type |-> callerCmd[c].type, cfg |-> callerCmd[c].cfg,
   id |-> callerCmd[c].id]

\* select of capturing, case <-c.ctx.Done()
capturingCtxDone ==
  /\ fsmPc = "capturingSelect"
  /\ Alive
  /\ ctxDone
  /\ fsmPc' = "closing"
  /\ UNCHANGED <<capVars, srcVars, fsmCmd, rotateResult, procVars, callVars,
                 gpVars, flVars, apiVars>>

\* select of capturing, case cmd := <-c.cmdChan (rendezvous with the sender)
capturingCmd(c) ==
  /\ fsmPc = "capturingSelect"
  /\ Alive
  /\ callerPc[c] = "send"
  /\ ~cmdChanClosed
  /\ fsmPc' = "execute"
  /\ fsmCmd' = received(c)
  /\ UNCHANGED rotateResult
  /\ callerPc' = [callerPc EXCEPT ![c] = "wait"]
  /\ UNCHANGED <<capVars, srcVars, procVars, callerCmd, reply, errorsResult,
                 callsLeft, updatesLeft, gpVars, flVars, apiVars>>

\* select of capturing, case err := <-c.captureErrors
capturingErr(p) ==
  /\ fsmPc = "capturingSelect"
  /\ Alive
  /\ procPc[p] = "sendErr"
  /\ procPc' = [procPc EXCEPT ![p] = "exited"]
  /\ errcount' = [errcount EXCEPT ![p] = 0]
  /\ fsmPc' = "inError"
  /\ UNCHANGED <<capVars, srcVars, fsmCmd, rotateResult, procHandle, nProcs,
                 pktEvents, callVars, gpVars, flVars, apiVars>>

\* inError, up to its loop: setState
inError ==
  /\ fsmPc = "inError"
  /\ Alive
  /\ state' = StateError
  /\ fsmPc' = "inErrorSelect"
  /\ UNCHANGED <<closed, config, captureHandle, cmdChanClosed, mutex,
                 lastRotationStats, packetsLogged, flowLog, errMap, errMapId,
                 ctxDone, srcVars, fsmCmd, rotateResult, procVars, callVars,
                 gpVars, flVars, apiVars>>

\* select of inError, case <-c.ctx.Done()
inErrorCtxDone ==
  /\ fsmPc = "inErrorSelect"
  /\ Alive
  /\ ctxDone
  /\ fsmPc' = "closing"
  /\ UNCHANGED <<capVars, srcVars, fsmCmd, rotateResult, procVars, callVars,
                 gpVars, flVars, apiVars>>

\* select of inError, case cmd := <-c.cmdChan
inErrorCmd(c) ==
  /\ fsmPc = "inErrorSelect"
  /\ Alive
  /\ callerPc[c] = "send"
  /\ ~cmdChanClosed
  /\ fsmPc' = "execute"
  /\ fsmCmd' = received(c)
  /\ UNCHANGED rotateResult
  /\ callerPc' = [callerPc EXCEPT ![c] = "wait"]
  /\ UNCHANGED <<capVars, srcVars, procVars, callerCmd, reply, errorsResult,
                 callsLeft, updatesLeft, gpVars, flVars, apiVars>>

\* closing without close(c.cmdChan)
closingLeavingChannelOpen ==
  /\ fsmPc = "closing"
  /\ Alive
  /\ state' = StateClosing
  /\ reset
  /\ closed' = TRUE
  /\ fsmPc' = "returned"
  /\ UNCHANGED <<config, cmdChanClosed, mutex, packetsLogged, flowLog,
                 ctxDone, nHandles, srcReceived, fsmCmd, rotateResult,
                 procVars, callVars, gpVars, flVars, apiVars>>

\* closing: setState, reset, close(c.cmdChan), c.closed = true, return nil
closing ==
  /\ fsmPc = "closing"
  /\ Alive
  /\ state' = StateClosing
  /\ reset
  /\ cmdChanClosed' = TRUE
  /\ closed' = TRUE
  /\ fsmPc' = "returned"
  /\ UNCHANGED <<config, mutex, packetsLogged, flowLog, ctxDone, nHandles,
                 srcReceived, fsmCmd, rotateResult, procVars, callVars,
                 gpVars, flVars, apiVars>>

-----------------------------------------------------------------------------
(* capture.go: the commands, executed by the worker *)

executing(type) ==
  /\ fsmPc = "execute"
  /\ Alive
  /\ fsmCmd.type = type

\* cmd.returnChan <- r, cmd.done(): r reaches the caller if it is still in
\* the call that sent the command
answer(r) ==
  reply' = IF callerCmd[fsmCmd.from].id = fsmCmd.id
             THEN [reply EXCEPT ![fsmCmd.from] = r]
             ELSE reply

\* captureCommandStatus.execute
executeStatus ==
  /\ executing("Status")
  /\ answer([kind |-> "Status", state |-> state,
             received |-> tryGetCaptureStats,
             logged |-> packetsLogged - lastRotationStats.logged,
             agg |-> 0, ref |-> 0])
  /\ fsmPc' = afterCommand("nil")
  /\ fsmCmd' = NoCmd
  /\ UNCHANGED rotateResult
  /\ UNCHANGED <<capVars, srcVars, procVars, callerPc, callerCmd,
                 errorsResult, callsLeft, updatesLeft, gpVars, flVars, apiVars>>

\* captureCommandErrors.execute
executeErrors ==
  /\ executing("Errors")
  /\ answer([NoReply EXCEPT !.kind = "Errors", !.agg = errMap,
                            !.ref = errMapId])
  /\ fsmPc' = afterCommand("nil")
  /\ fsmCmd' = NoCmd
  /\ UNCHANGED rotateResult
  /\ UNCHANGED <<capVars, srcVars, procVars, callerPc, callerCmd,
                 errorsResult, callsLeft, updatesLeft, gpVars, flVars, apiVars>>

\* captureCommandFlows.execute
executeFlows ==
  /\ executing("Flows")
  /\ answer([NoReply EXCEPT !.kind = "Flows", !.agg = flowLog])
  /\ fsmPc' = afterCommand("nil")
  /\ fsmCmd' = NoCmd
  /\ UNCHANGED rotateResult
  /\ UNCHANGED <<capVars, srcVars, procVars, callerPc, callerCmd,
                 errorsResult, callsLeft, updatesLeft, gpVars, flVars, apiVars>>

\* captureCommandUpdate.execute (defer cmd.done(): the caller is released
\* when execute returns)
executeUpdate ==
  /\ executing("Update")
  /\ IF needReinitialization(fsmCmd.cfg)
       THEN /\ reset
            /\ config' = fsmCmd.cfg
            /\ fsmPc' = afterCommand("initializing")
       ELSE /\ fsmPc' = afterCommand("nil")
            /\ UNCHANGED <<handleClosed, lastRotationStats, captureHandle,
                           errMap, errMapId, config>>
  /\ answer([NoReply EXCEPT !.kind = "done"])
  /\ fsmCmd' = NoCmd
  /\ UNCHANGED rotateResult
  /\ UNCHANGED <<state, closed, cmdChanClosed, mutex, packetsLogged, flowLog,
                 ctxDone, nHandles, srcReceived, procVars, callerPc,
                 callerCmd, errorsResult, callsLeft, updatesLeft, gpVars,
                 flVars, apiVars>>

\* captureCommandRotate.execute, up to the call of c.flowLog.Rotate()
executeRotate ==
  /\ executing("Rotate")
  /\ fsmPc' = "Rotate"
  /\ UNCHANGED <<capVars, srcVars, fsmCmd, rotateResult, procVars, callVars,
                 gpVars, flVars, apiVars>>

\* captureCommandRotate.execute, from the return of c.flowLog.Rotate() to
\* result.stats: the counters of the source, their copy, the statistics
\* since the last rotation
executeRotateReturn ==
  /\ fsmPc = "Rotate"
  /\ Alive
  /\ flowLog' = 0
  /\ rotateResult' =
       [received |-> tryGetCaptureStats - lastRotationStats.received,
        logged |-> packetsLogged - lastRotationStats.logged,
        agg |-> flowLog,
        stats |-> tryGetCaptureStats]
  /\ fsmPc' = "RotateStore"
  /\ UNCHANGED <<state, closed, config, captureHandle, cmdChanClosed, mutex,
                 lastRotationStats, packetsLogged, errMap, errMapId, ctxDone,
                 srcVars, fsmCmd, procVars, callVars, gpVars, flVars, apiVars>>

\* captureCommandRotate.execute, the rest: c.lastRotationStats is set from
\* the copy and from c.packetsLogged, the result is sent
executeRotateStore ==
  /\ fsmPc = "RotateStore"
  /\ Alive
  /\ lastRotationStats' = [received |-> rotateResult.stats,
                           logged |-> packetsLogged]
  /\ answer([kind |-> "Rotate", state |-> StateUnset,
             received |-> rotateResult.received,
             logged |-> rotateResult.logged,
             agg |-> rotateResult.agg, ref |-> 0])
  /\ rotateResult' = NoRotateResult
  /\ fsmPc' = afterCommand("nil")
  /\ fsmCmd' = NoCmd
  /\ UNCHANGED <<state, closed, config, captureHandle, cmdChanClosed, mutex,
                 packetsLogged, flowLog, errMap, errMapId, ctxDone, srcVars,
                 procVars, callerPc, callerCmd, errorsResult, callsLeft,
                 updatesLeft, gpVars, flVars, apiVars>>

-----------------------------------------------------------------------------
(* capture.go: process, the packet task *)

\* iterations of capturePacket a run of n malformed packets gets through:
\* the iteration that raises errcount above ErrorThreshold is the last
runIterations(p, n) ==
  IF errcount[p] + n > ErrorThreshold
    THEN ErrorThreshold + 1 - errcount[p]
    ELSE n

\* errcount > ErrorThreshold: capturePacket returns the fatal error
tooManyErrors(count) == count > ErrorThreshold

\* capturePacket calls c.captureHandle.NextPacket: a nil interface panics
processNextPacket(p) ==
  /\ procPc[p] = "loop"
  /\ Alive
  /\ IF captureHandle = NilHandle
       THEN /\ procPc' = [procPc EXCEPT ![p] = "panic"]
            /\ UNCHANGED procHandle
       ELSE /\ procPc' = [procPc EXCEPT ![p] = "NextPacket"]
            /\ procHandle' = [procHandle EXCEPT ![p] = captureHandle]
  /\ UNCHANGED <<capVars, srcVars, fsmVars, errcount, nProcs, pktEvents,
                 callVars, gpVars, flVars, apiVars>>

\* NextPacket delivers a packet and Populate decodes it: c.flowLog.Add is
\* called
processPopulate(p) ==
  /\ procPc[p] = "NextPacket"
  /\ Alive
  /\ procHandle[p] \notin handleClosed
  /\ pktEvents < MaxPktEvents
  /\ pktEvents' = pktEvents + 1
  /\ srcReceived' = srcReceived + 1
  /\ procPc' = [procPc EXCEPT ![p] = "Add"]
  /\ procHandle' = [procHandle EXCEPT ![p] = NilHandle]
  /\ UNCHANGED <<capVars, handleClosed, nHandles, fsmVars, errcount, nProcs,
                 callVars, gpVars, flVars, apiVars>>

\* c.flowLog.Add returns: errcount = 0, c.packetsLogged++
processAdded(p) ==
  /\ procPc[p] = "Add"
  /\ Alive
  /\ flowLog' = flowLog + 1
  /\ errcount' = [errcount EXCEPT ![p] = 0]
  /\ packetsLogged' = packetsLogged + 1
  /\ procPc' = [procPc EXCEPT ![p] = "loop"]
  /\ UNCHANGED <<state, closed, config, captureHandle, cmdChanClosed, mutex,
                 lastRotationStats, errMap, errMapId, ctxDone, srcVars,
                 fsmVars, procHandle, nProcs, pktEvents, callVars, gpVars,
                 flVars, apiVars>>

\* NextPacket delivers n malformed packets in a row: every iteration counts
\* the error in errcount and c.errMap; above ErrorThreshold the loop leaves
\* with the fatal error and sends it on c.captureErrors
processMalformed(p, n) ==
  /\ procPc[p] = "NextPacket"
  /\ Alive
  /\ procHandle[p] \notin handleClosed
  /\ pktEvents < MaxPktEvents
  /\ pktEvents' = pktEvents + 1
  /\ LET k == runIterations(p, n)
     IN  /\ srcReceived' = srcReceived + k
         /\ errcount' = [errcount EXCEPT ![p] = @ + k]
         /\ errMap' = errMap + k
         /\ procPc' = [procPc EXCEPT ![p] =
                         IF tooManyErrors(errcount[p] + k)
                           THEN "sendErr" ELSE "loop"]
  /\ procHandle' = [procHandle EXCEPT ![p] = NilHandle]
  /\ UNCHANGED <<errMapId, state, closed, config, captureHandle,
                 cmdChanClosed, mutex, lastRotationStats, packetsLogged,
                 flowLog, ctxDone, handleClosed, nHandles, fsmVars, nProcs,
                 callVars, gpVars, flVars, apiVars>>

\* NextPacket fails with an error other than capture.ErrCaptureStopped: the
\* loop sends it on c.captureErrors
processCaptureError(p) ==
  /\ procPc[p] = "NextPacket"
  /\ Alive
  /\ procHandle[p] \notin handleClosed
  /\ pktEvents < MaxPktEvents
  /\ pktEvents' = pktEvents + 1
  /\ procPc' = [procPc EXCEPT ![p] = "sendErr"]
  /\ procHandle' = [procHandle EXCEPT ![p] = NilHandle]
  /\ UNCHANGED <<capVars, srcVars, fsmVars, errcount, nProcs, callVars,
                 gpVars, flVars, apiVars>>

\* NextPacket on a closed source fails with capture.ErrCaptureStopped: the
\* task returns
processStopped(p) ==
  /\ procPc[p] = "NextPacket"
  /\ Alive
  /\ procHandle[p] \in handleClosed
  /\ procPc' = [procPc EXCEPT ![p] = "exited"]
  /\ procHandle' = [procHandle EXCEPT ![p] = NilHandle]
  /\ errcount' = [errcount EXCEPT ![p] = 0]
  /\ UNCHANGED <<capVars, srcVars, fsmVars, nProcs, pktEvents, callVars,
                 gpVars, flVars, apiVars>>

-----------------------------------------------------------------------------
(* capture.go: the public methods, run by the callers *)

\* Status, Errors, Flows and Update return at once on a closed capture;
\* Rotate has no such check
checksClosed(type) == type # "Rotate"

\* c.mutex.Lock(), the closed check, then the send on c.cmdChan
Call(c, cmd) ==
  /\ callerPc[c] = "idle"
  /\ Alive
  /\ callsLeft > 0
  /\ cmd.type = "Update" => updatesLeft > 0
  /\ mutex = NoCaller
  /\ callsLeft' = callsLeft - 1
  /\ updatesLeft' = IF cmd.type = "Update" THEN updatesLeft - 1
                    ELSE updatesLeft
  /\ callerCmd' = [callerCmd EXCEPT ![c] =
                      [type |-> cmd.type, cfg |-> cmd.cfg, id |-> callsLeft]]
  /\ IF closed /\ checksClosed(cmd.type)
       THEN /\ reply' = [reply EXCEPT ![c] =
                           [NoReply EXCEPT !.kind = "closed"]]
            /\ callerPc' = [callerPc EXCEPT ![c] = "wait"]
       ELSE /\ reply' = [reply EXCEPT ![c] = NoReply]
            /\ callerPc' = [callerPc EXCEPT ![c] = "send"]
  /\ mutex' = c
  /\ UNCHANGED <<state, closed, config, captureHandle, cmdChanClosed,
                 lastRotationStats, packetsLogged, flowLog, errMap, errMapId,
                 ctxDone, srcVars, fsmVars, procVars, errorsResult, gpVars,
                 flVars, apiVars>>

\* what the caller waits for after the send: the reply on its return
\* channel; Update waits for updateCtx, a child of c.ctx, to be done
released(c) ==
  \/ reply[c].kind # "none"
  \/ callerCmd[c].type = "Update" /\ ctxDone

\* the receive returns, the deferred c.mutex.Unlock() runs; the caller of
\* Errors has the ErrorMap that was sent: a reference to the map object
Return(c) ==
  /\ callerPc[c] = "wait"
  /\ Alive
  /\ released(c)
  /\ callerPc' = [callerPc EXCEPT ![c] = "idle"]
  /\ callerCmd' = [callerCmd EXCEPT ![c] = NoCommand]
  /\ reply' = [reply EXCEPT ![c] = NoReply]
  /\ errorsResult' =
       IF reply[c].kind = "Errors"
         THEN [errorsResult EXCEPT ![c] =
                 [ref |-> reply[c].ref, count |-> reply[c].agg]]
         ELSE errorsResult
  /\ mutex' = NoCaller
  /\ UNCHANGED <<state, closed, config, captureHandle, cmdChanClosed,
                 lastRotationStats, packetsLogged, flowLog, errMap, errMapId,
                 ctxDone, srcVars, fsmVars, procVars, callsLeft, updatesLeft,
                 gpVars, flVars, apiVars>>

\* a sender blocked on c.cmdChan when the channel is closed panics
\* (the mutex stays locked)
SendOnClosed(c) ==
  /\ callerPc[c] = "send"
  /\ Alive
  /\ cmdChanClosed
  /\ callerPc' = [callerPc EXCEPT ![c] = "panic"]
  /\ UNCHANGED <<capVars, srcVars, fsmVars, procVars, callerCmd, reply,
                 errorsResult, callsLeft, updatesLeft, gpVars, flVars, apiVars>>

\* the manager cancels the capture's context
Cancel ==
  /\ ~ctxDone
  /\ Alive
  /\ ctxDone' = TRUE
  /\ UNCHANGED <<state, closed, config, captureHandle, cmdChanClosed, mutex,
                 lastRotationStats, packetsLogged, flowLog, errMap, errMapId,
                 srcVars, fsmVars, procVars, callVars, gpVars, flVars, apiVars>>

-----------------------------------------------------------------------------
(* GPFile.go: constants, header encoding *)

BufSize == 4096
NumElements == BufSize \div 8
\* the header: three arrays of NumElements 8-byte slots
HeaderSize == BufSize * 3
Slots == 0..(NumElements - 1)

\* the encoding with the shifts of the last two bytes exchanged: the low
\* byte in front of the second lowest
EncodeInt64LowBytesSwapped(v) ==
  LET sign == IF v < 0 THEN 255 ELSE 0
  IN  <<sign, sign, sign, sign, (v \div 16777216) % 256,
        (v \div 65536) % 256, v % 256, (v \div 256) % 256>>

\* byte(v >> uint(56-(j*8))) for j = 0..7, as the bytes 1..8 of a tuple:
\* big-endian two's complement.  The model holds values of the 32-bit range
\* only: the shifts by 56, 48, 40 and 32 leave the sign (0 or -1), those by
\* 24, 16, 8 and 0 are divisions
EncodeInt64(v) ==
  LET sign == IF v < 0 THEN 255 ELSE 0
  IN  <<sign, sign, sign, sign, (v \div 16777216) % 256,
        (v \div 65536) % 256, (v \div 256) % 256, v % 256>>

\* int64(b[0])<<56 | ... | int64(b[7]), for the encodings of values of the
\* 32-bit range (the first four bytes all 0 or all 255)
DecodeInt64(b) ==
  (IF b[1] = 255 THEN b[5] - 256 ELSE b[5]) * 16777216
    + b[6] * 65536 + b[7] * 256 + b[8]

\* the in-memory header of a file without blocks
emptyHeader ==
  [blocks |-> [i \in Slots |-> 0],
   timestamps |-> [i \in Slots |-> 0],
   lengths |-> [i \in Slots |-> 0]]

\* WriteTimedBlock: f.wBuf filled from f.blocks, f.timestamps, f.lengths
encodeHeader(h) ==
  [blocks |-> [i \in Slots |-> EncodeInt64(h.blocks[i])],
   timestamps |-> [i \in Slots |-> EncodeInt64(h.timestamps[i])],
   lengths |-> [i \in Slots |-> EncodeInt64(h.lengths[i])]]

\* NewGPFile: h, ts, le read from bufH, bufTS, bufLen
decodeHeader(w) ==
  [blocks |-> [i \in Slots |-> DecodeInt64(w.blocks[i])],
   timestamps |-> [i \in Slots |-> DecodeInt64(w.timestamps[i])],
   lengths |-> [i \in Slots |-> DecodeInt64(w.lengths[i])]]

\* for i := 0; i < NumElements; i++ { if test { ... } }: the first slot that
\* passes the test (p[i]: slot i passes), NumElements when the loop runs to
\* its end
firstSlot(p) ==
  IF \E i \in Slots : p[i]
    THEN CHOOSE i \in Slots : p[i] /\ \A j \in 0..(i - 1) : ~p[j]
    ELSE NumElements

\* the test of BlocksUsed and ReadBlock for an unused slot
emptySlot(h, i) ==
  h.timestamps[i] = 0 /\ h.blocks[i] = 0 /\ h.lengths[i] = 0

\* BlocksUsed: the first slot whose triple is all zero; -1 and an error when
\* the loop finds none
BlocksUsed(h) ==
  LET i == firstSlot([k \in Slots |-> emptySlot(h, k)])
  IN  IF i < NumElements THEN [n |-> i, err |-> "nil"]
      ELSE [n |-> -1, err |-> "Could not retrieve number of allocated blocks"]

-----------------------------------------------------------------------------
(* pkg/goDB/lz4 (Encoder): LZ4 block format.  A block is a list of
   sequences: a token byte (high half: the number of literals, low half:
   the match length less 4), the literals, and, in all sequences but the
   last, a match offset of two bytes (low byte first).  The token halves of
   the blocks in the files of the model are below 15, the value that makes
   a length go on in further bytes *)

Payloads == {<<>>, <<2, 1>>}

\* the smallest input LZ4 compresses, the literals that end a block, the
\* shortest match
MinLength == 13
LastLiterals == 5
MinMatch == 4

\* data is one byte repeated, of a length whose match fits a token
isRun(data) ==
  /\ Len(data) >= MinLength
  /\ Len(data) - 1 - LastLiterals - MinMatch < 15
  /\ \A k \in 1..Len(data) : data[k] = data[1]

\* Compress: the bytes written to the file; their number is nWrite.  A run
\* is its first byte, a match at offset 1 and the last literals; other data
\* of the model has no match and is one sequence of literals
Compress(data) ==
  IF isRun(data)
    THEN <<16 + (Len(data) - 1 - LastLiterals - MinMatch), data[1], 1, 0,
           16 * LastLiterals>>
           \o [k \in 1..LastLiterals |-> data[1]]
    ELSE <<16 * Len(data)>> \o data

\* the output after a match of mlen bytes at the given offset was copied
\* byte by byte (the match may overlap the bytes it produces)
copyMatch(out, offset, mlen) ==
  out \o [k \in 1..mlen |->
            out[Len(out) - offset + 1 + ((k - 1) % offset)]]

\* the decoder from the token at comp[i] on, with the output produced so
\* far and the size n of the output buffer: the decoded bytes, or ok = FALSE
\* for bytes that are no block or do not fit the buffer
RECURSIVE lz4Decode(_, _, _, _)
lz4Decode(comp, i, out, n) ==
  LET fail == [ok |-> FALSE, out |-> <<>>]
  IN  IF i > Len(comp) THEN fail
      ELSE
        LET lit == comp[i] \div 16
            ml == comp[i] % 16
            litEnd == i + lit
        IN  IF lit = 15 \/ ml = 15 \/ litEnd > Len(comp)
                 \/ Len(out) + lit > n
              THEN fail
            ELSE
              LET out2 == out \o SubSeq(comp, i + 1, litEnd)
              IN  IF litEnd = Len(comp) THEN [ok |-> ml = 0, out |-> out2]
                  ELSE IF litEnd + 2 > Len(comp) THEN fail
                  ELSE
                    LET offset == comp[litEnd + 1] + 256 * comp[litEnd + 2]
                        mlen == ml + MinMatch
                    IN  IF offset = 0 \/ offset > Len(out2)
                             \/ Len(out2) + mlen > n
                          THEN fail
                        ELSE lz4Decode(comp, litEnd + 3,
                                       copyMatch(out2, offset, mlen), n)

\* the bytes are one block that fits a buffer of size n
validBlock(comp, n) == lz4Decode(comp, 1, <<>>, n).ok

\* Decompress(bufComp, buf, src): reads len(bufComp) bytes from src at its
\* position, decompresses them into buf (len(buf) = n); returns the number
\* of bytes read (n), or 0 and an error.  avail: the bytes of src from its
\* position to the end of the file; size: the number of bytes the decoder
\* produced, -1 when it failed or was not run
Decompress(readLen, n, avail) ==
  LET got == IF Len(avail) < readLen THEN Len(avail) ELSE readLen
      comp == SubSeq(avail, 1, got)
      dec == lz4Decode(comp, 1, <<>>, n)
  IN  IF got = readLen /\ validBlock(comp, n)
        THEN [n |-> got, read |-> got, size |-> Len(dec.out),
              buf |-> [k \in 1..n |->
                         IF k <= Len(dec.out) THEN dec.out[k] ELSE 0]]
        ELSE [n |-> 0, read |-> got, size |-> -1,
              buf |-> [k \in 1..n |-> 0]]

-----------------------------------------------------------------------------
(* GPFile.go: the file, the GPFile object, the pure parts of its methods *)

\* the file in the file system: the header as it is encoded on disk and the
\* bytes after the header (file offset o is data[o - HeaderSize + 1])
NoFile ==
  [exists |-> FALSE, header |-> encodeHeader(emptyHeader), data |-> <<>>]

\* the GPFile object: blocks, timestamps, lengths (h), the position of
\* curFile (pos), lastSeekPos
NoGPFile == [open |-> FALSE, h |-> emptyHeader, pos |-> 0, lastSeekPos |-> 0]

\* the last call, its error and its argument (the timestamp of
\* WriteTimedBlock and ReadTimedBlock, the block of ReadBlock)
NoResult == [op |-> "none", err |-> "nil", arg |-> 0]

\* os.OpenFile(O_APPEND|O_WRONLY), Compress into it: the compressed bytes
\* go to the end of the file
appendBlock(d, comp) == [d EXCEPT !.data = @ \o comp]

\* os.OpenFile(O_WRONLY), Write(f.wBuf): the header is overwritten in one
\* write
rewriteHeader(d, h) == [d EXCEPT !.header = encodeHeader(h)]

\* the loop of WriteTimedBlock without its test for the timestamp: the first
\* slot with the timestamp 0 is taken whatever the timestamp is
findSlotAnyTimestamp(h, timestamp) ==
  LET newPos == firstSlot([i \in Slots |-> h.timestamps[i] = 0])
  IN  IF newPos = NumElements
        THEN [err |-> "File is full", newPos |-> NumElements,
              nextFreeBlock |-> -1]
      ELSE [err |-> "nil", newPos |-> newPos,
            nextFreeBlock |-> IF newPos # 0 THEN h.blocks[newPos - 1]
                              ELSE HeaderSize]

\* WriteTimedBlock, the loop over the timestamps: the first slot that holds
\* the timestamp (error) or the timestamp 0 (the free slot)
findSlot(h, timestamp) ==
  LET newPos == firstSlot([i \in Slots |-> h.timestamps[i] = timestamp
                                                \/ h.timestamps[i] = 0])
  IN  IF newPos = NumElements
        THEN [err |-> "File is full", newPos |-> NumElements,
              nextFreeBlock |-> -1]
      ELSE IF h.timestamps[newPos] = timestamp
        THEN [err |-> "already exists", newPos |-> newPos,
              nextFreeBlock |-> -1]
      ELSE [err |-> "nil", newPos |-> newPos,
            nextFreeBlock |-> IF newPos # 0 THEN h.blocks[newPos - 1]
                              ELSE HeaderSize]

\* WriteTimedBlock, "Update header": the three arrays of the object
updateHeader(h, s, nWrite, timestamp, len) ==
  [blocks |-> [h.blocks EXCEPT ![s.newPos] = s.nextFreeBlock + nWrite],
   timestamps |-> [h.timestamps EXCEPT ![s.newPos] = timestamp],
   lengths |-> [h.lengths EXCEPT ![s.newPos] = len]]

\* the file a WriteTimedBlock leaves when the process dies before the header
\* is rewritten, with the header rewritten before the payload is appended
interruptedHeaderFirst(d, h2, comp) == rewriteHeader(d, h2)

\* the file a WriteTimedBlock leaves when the process dies after Compress
\* has appended the payload and before the header is rewritten (h2: the
\* arrays the call would have written)
interruptedWrite(d, h2, comp) == appendBlock(d, comp)

\* ReadBlock (size: the number of bytes the decoder produced in the call,
\* -1 when it failed or was not run)
ReadBlock(f, d, block) ==
  IF emptySlot(f.h, block)
    THEN [err |-> "is empty", data |-> <<>>, f |-> f, size |-> -1]
    ELSE
      LET seekPos == IF block # 0 THEN f.h.blocks[block - 1] ELSE HeaderSize
          readLen == f.h.blocks[block] - seekPos
          \* if seekPos != f.lastSeekPos: Seek, f.lastSeekPos = seekPos
          pos == IF seekPos # f.lastSeekPos THEN seekPos ELSE f.pos
          avail == SubSeq(d.data, pos - HeaderSize + 1, Len(d.data))
          r == Decompress(readLen, f.h.lengths[block], avail)
          g == [f EXCEPT !.pos = pos + r.read, !.lastSeekPos = seekPos]
      IN  IF r.n # readLen
            THEN [err |-> "Incorrect number of bytes read", data |-> <<>>,
                  f |-> g, size |-> r.size]
            ELSE [err |-> "nil", data |-> r.buf, f |-> g, size |-> r.size]

\* ReadTimedBlock: ReadBlock of the first slot that holds the timestamp
ReadTimedBlock(f, d, timestamp) ==
  LET i == firstSlot([k \in Slots |-> f.h.timestamps[k] = timestamp])
  IN  IF i = NumElements
        THEN [err |-> "not found", data |-> <<>>, f |-> f, size |-> -1]
      ELSE ReadBlock(f, d, i)

-----------------------------------------------------------------------------
(* GPFile.go: the calls made on one file by the process that owns it *)

\* the capture leaves the block file alone
GPIdle == disk = 0 /\ gpf = 0 /\ gpLast = 0 /\ gpHist = 0

\* no flow log is looked at and no packet is classified
FLIdle == flowMap = 0 /\ aggMap = 0 /\ flHist = 0 /\ pkt = 0 /\ cls = 0

\* no status request is served
APIIdle == captureManager = 0 /\ resp = 0

\* the payload of the k-th block of a file that was filled before the
\* behaviour starts (the last two: a run of 16 bytes and 9 bytes without a
\* match, which Compress turns into blocks of the same length)
filledPayload(k) ==
  IF k = NumElements - 2 THEN [j \in 1..16 |-> 7]
  ELSE IF k = NumElements - 1 THEN <<1, 2, 3, 4, 5, 6, 7, 8, 9>>
  ELSE IF k % 3 = 0 THEN <<>> ELSE IF k % 3 = 1 THEN <<1>> ELSE <<2, 1>>

\* the arrays and the bytes after the header, after the successful call
\* WriteTimedBlock(k, filledPayload(k))
writtenBlock(prev, k) ==
  LET s == findSlot(prev.h, k)
      comp == Compress(filledPayload(k))
  IN  [h |-> updateHeader(prev.h, s, Len(comp), k, Len(filledPayload(k))),
       data |-> prev.data \o comp,
       n |-> prev.n + 1]

\* ... after the calls for k = lo..hi, one after the other (the test of
\* first.n only makes the first half be evaluated before the second)
RECURSIVE writtenBlocks(_, _, _)
writtenBlocks(prev, lo, hi) ==
  IF lo > hi THEN prev
  ELSE IF lo = hi THEN writtenBlock(prev, lo)
  ELSE LET mid == (lo + hi) \div 2
           first == writtenBlocks(prev, lo, mid)
       IN  IF first.n = mid THEN writtenBlocks(first, mid + 1, hi)
           ELSE first

\* a new file after n successful calls
filled(n) == writtenBlocks([h |-> emptyHeader, data |-> <<>>, n |-> 0], 1, n)

\* the fill levels the behaviours start from: no file, and a file with one
\* free slot
Fills == {0, NumElements - 1}

\* what was done to the file: the number of blocks it was filled with
\* before, the successful writes since in their order, whether no call has
\* failed or was interrupted after it changed the file or the arrays, the
\* last interrupted write (its timestamp, BlocksUsed before it, whether the
\* arrays of the object were those of the file's header, clean before it),
\* the number of calls that got past opening the file
history(n) ==
  [fill |-> n,
   written |-> <<>>,
   clean |-> TRUE,
   crash |-> [pending |-> FALSE, ts |-> 0, used |-> 0, synced |-> TRUE,
              clean |-> TRUE],
   calls |-> 0]

GPInit ==
  /\ NewCapture
  /\ APIIdle
  /\ \E n \in Fills :
       /\ disk = IF n = 0 THEN NoFile
                 ELSE [exists |-> TRUE,
                       header |-> encodeHeader(filled(n).h),
                       data |-> filled(n).data]
       /\ gpHist = history(n)
  /\ gpf = NoGPFile
  /\ gpLast = NoResult
  /\ FLIdle

captureVars == <<capVars, srcVars, fsmVars, procVars, callVars>>

\* NewGPFile: reads the header of an existing file, creates the file with
\* an empty header otherwise; curFile stands behind the header
GPOpen ==
  /\ ~gpf.open
  /\ disk' = IF disk.exists THEN disk ELSE [NoFile EXCEPT !.exists = TRUE]
  /\ gpf' = [open |-> TRUE, h |-> decodeHeader(disk'.header),
             pos |-> HeaderSize, lastSeekPos |-> 0]
  /\ gpLast' = [op |-> "Open", err |-> "nil", arg |-> 0]
  /\ UNCHANGED <<captureVars, apiVars, flVars, gpHist>>

\* Close: the object is not used afterwards
GPClose ==
  /\ gpf.open
  /\ gpf' = NoGPFile
  /\ gpLast' = [op |-> "Close", err |-> "nil", arg |-> 0]
  /\ UNCHANGED <<captureVars, apiVars, flVars, disk, gpHist>>

\* the outcomes of the steps of WriteTimedBlock after a free slot was found:
\* all succeed; os.OpenFile for appending fails; Compress fails after it
\* wrote a byte; the header is not rewritten (os.OpenFile or Write fails);
\* the process dies after Compress
WriteOutcomes ==
  {"nil", "open failed", "compress failed", "header rewrite failed", "crash"}

\* the payloads of the calls by their outcome: the calls that succeed write
\* any payload
WriteInputs ==
  {<<data, "nil">> : data \in Payloads}
    \cup {<<<<2, 1>>, outcome>> : outcome \in WriteOutcomes \ {"nil"}}

\* the index of the last used slot (0 in a file without blocks)
lastUsed(h) ==
  LET n == BlocksUsed(h).n
  IN  IF n = -1 THEN NumElements - 1 ELSE IF n = 0 THEN 0 ELSE n - 1

\* a timestamp above all that were written
nextTs == gpHist.fill + gpHist.calls + 1

\* the timestamps of the WriteTimedBlock calls: 0, the one of the last used
\* slot, a new one
TimeInputs == {0, gpf.h.timestamps[lastUsed(gpf.h)], nextTs}

\* WriteTimedBlock(timestamp, data) from the end of its loop (s: what the
\* loop found), with the outcome of its file operations (a call that finds
\* no free slot does not read data)
WriteTimedBlock(timestamp, s, data, outcome) ==
  /\ LET comp == Compress(data)
         h2 == updateHeader(gpf.h, s, Len(comp), timestamp, Len(data))
         appended == s.err = "nil" /\ outcome # "open failed"
         ok == s.err = "nil" /\ outcome = "nil"
         crashed == s.err = "nil" /\ outcome = "crash"
     IN  /\ s.err # "nil" => (outcome = "nil" /\ data = <<>>)
         /\ disk' =
              IF ~appended THEN disk
              ELSE IF outcome = "compress failed"
                THEN appendBlock(disk, SubSeq(comp, 1, 1))
              ELSE IF crashed THEN interruptedWrite(disk, h2, comp)
              ELSE IF ok THEN rewriteHeader(appendBlock(disk, comp), h2)
              ELSE appendBlock(disk, comp)
         /\ gpf' =
              IF crashed THEN NoGPFile
              ELSE IF appended /\ outcome # "compress failed"
                THEN [gpf EXCEPT !.h = h2]
              ELSE gpf
         /\ gpLast' = [op |-> IF crashed THEN "Crash" ELSE "Write",
                       err |-> IF s.err # "nil" THEN s.err ELSE outcome,
                       arg |-> timestamp]
         /\ gpHist' =
              [fill |-> gpHist.fill,
               written |-> IF ok
                             THEN Append(gpHist.written,
                                         [ts |-> timestamp, data |-> data])
                             ELSE gpHist.written,
               clean |-> gpHist.clean /\ (ok \/ ~appended),
               crash |-> IF crashed
                           THEN [pending |-> TRUE, ts |-> timestamp,
                                 used |-> BlocksUsed(gpf.h).n,
                                 synced |->
                                   gpf.h = decodeHeader(disk.header),
                                 clean |-> gpHist.clean]
                           ELSE [gpHist.crash EXCEPT !.pending = FALSE],
               calls |-> IF appended THEN gpHist.calls + 1
                         ELSE gpHist.calls]
  /\ UNCHANGED <<captureVars, apiVars, flVars>>

\* a WriteTimedBlock call
GPWrite ==
  /\ gpf.open
  /\ gpHist.calls < MaxWrites
  /\ \E timestamp \in TimeInputs :
       LET s == findSlot(gpf.h, timestamp)
       IN  \E in \in WriteInputs :
             WriteTimedBlock(timestamp, s, in[1], in[2])

\* ReadTimedBlock(timestamp)
GPRead(timestamp) ==
  /\ gpf.open
  /\ LET r == ReadTimedBlock(gpf, disk, timestamp)
     IN  /\ gpf' = r.f
         /\ gpLast' = [op |-> "Read", err |-> r.err, arg |-> timestamp]
  /\ UNCHANGED <<captureVars, apiVars, flVars, disk, gpHist>>

\* the timestamps of the ReadTimedBlock calls: 0, one that was never
\* written, those of the last two used slots
ReadInputs ==
  LET last == lastUsed(gpf.h)
  IN  {0, nextTs, gpf.h.timestamps[last],
       gpf.h.timestamps[IF last > 0 THEN last - 1 ELSE 0]}

\* ReadBlock(block)
GPReadBlock(block) ==
  /\ gpf.open
  /\ LET r == ReadBlock(gpf, disk, block)
     IN  /\ gpf' = r.f
         /\ gpLast' = [op |-> "ReadBlock", err |-> r.err, arg |-> block]
  /\ UNCHANGED <<captureVars, apiVars, flVars, disk, gpHist>>

\* the blocks of the ReadBlock calls: the last two used slots and the slot
\* after them (the first unused one in a file that is not full)
BlockInputs ==
  LET last == lastUsed(gpf.h)
  IN  {IF last > 0 THEN last - 1 ELSE 0, last,
       IF last < NumElements - 1 THEN last + 1 ELSE last}

GPNext ==
  \/ GPOpen
  \/ GPClose
  \/ GPWrite
  \/ \E timestamp \in ReadInputs : GPRead(timestamp)
  \/ \E block \in BlockInputs : GPReadBlock(block)

GPSpec == GPInit /\ [][GPNext]_vars

-----------------------------------------------------------------------------
(* GPPacket: the packet classifier (ClassifyPacketDirection, the key) *)

\* IP protocol numbers
ICMP == 1
TCP == 6
UDP == 17
GRE == 47
ICMPv6 == 58

DirectionRemains == "DirectionRemains"
DirectionReverts == "DirectionReverts"

\* ICMP / ICMPv6 types carried in auxInfo: echo reply, destination
\* unreachable, echo request; echo request, echo reply, router advertisement
ICMPTypes == {0, 3, 8}
ICMPv6Types == {128, 129, 134}

\* the two hosts of the packets
Hosts == {1, 2}

\* the ports of the packets: none, DNS, DHCP server and client, HTTP, two
\* other privileged ports, two ephemeral ports
Ports == {0, 53, 67, 68, 80, 444, 445, 33560, 33561}

\* the packets handed to the classifier, as Populate leaves them: the
\* addresses and ports of the EPHash, the protocol, auxInfo (the ICMP type;
\* ports are zero for all protocols but TCP and UDP)
Packets ==
  {[sip |-> s, dip |-> d, sport |-> sp, dport |-> dp, proto |-> pr,
    auxInfo |-> 0] :
     s \in Hosts, d \in Hosts, sp \in Ports, dp \in Ports, pr \in {TCP, UDP}}
  \cup
  {[sip |-> s, dip |-> d, sport |-> 0, dport |-> 0, proto |-> ICMP,
    auxInfo |-> t] : s \in Hosts, d \in Hosts, t \in ICMPTypes}
  \cup
  {[sip |-> s, dip |-> d, sport |-> 0, dport |-> 0, proto |-> ICMPv6,
    auxInfo |-> t] : s \in Hosts, d \in Hosts, t \in ICMPv6Types}
  \cup
  {[sip |-> s, dip |-> d, sport |-> 0, dport |-> 0, proto |-> GRE,
    auxInfo |-> 0] : s \in Hosts, d \in Hosts}

\* the packet with source and destination (addresses and ports) exchanged
swap(p) ==
  [p EXCEPT !.sip = p.dip, !.dip = p.sip, !.sport = p.dport,
            !.dport = p.sport]

\* isCommonPort
isCommonPort(port, proto) ==
  \/ proto = TCP /\ port \in {53, 80, 443}
  \/ proto = UDP /\ port \in {53, 443}

\* ports below 1024 are privileged
isPrivilegedPort(port) == port < 1024

\* a well-known service port: up to 1024, or common
isWellKnownPort(port, proto) ==
  port # 0 /\ (port <= 1024 \/ isCommonPort(port, proto))

\* the number of the rule of the direction inference that decides for the
\* packet p: 1 ICMP echo and router advertisement, 2 common server port,
\* 3 DHCP, 4 zeroed ephemeral port, 5 ephemeral against privileged port,
\* 6 higher against lower port, 7 tie
decidingRule(p) ==
  IF \/ p.proto = ICMP /\ p.auxInfo \in {0, 8}
     \/ p.proto = ICMPv6 /\ p.auxInfo \in {128, 129, 134}
    THEN 1
  ELSE IF isCommonPort(p.sport, p.proto) # isCommonPort(p.dport, p.proto)
    THEN 2
  ELSE IF p.proto = UDP /\ {p.sport, p.dport} = {67, 68}
    THEN 3
  ELSE IF \/ p.sport = 0 /\ isWellKnownPort(p.dport, p.proto)
          \/ p.dport = 0 /\ isWellKnownPort(p.sport, p.proto)
    THEN 4
  ELSE IF isPrivilegedPort(p.sport) # isPrivilegedPort(p.dport)
    THEN 5
  ELSE IF p.sport # p.dport
    THEN 6
  ELSE 7

\* a result with directionConfidenceHigh set whatever the rule
alwaysConfident(dir) == [dir |-> dir, confidenceHigh |-> TRUE]

\* the result of a rule: the direction and directionConfidenceHigh
confident(dir) == [dir |-> dir, confidenceHigh |-> TRUE]
unconfident(dir) == [dir |-> dir, confidenceHigh |-> FALSE]

\* the classification of a TCP or UDP packet, or of a packet without ports:
\* common ports, DHCP, zeroed ephemeral port, privileged ports, the lower
\* port, the tie
classifyByPorts(p) ==
  LET commonS == isCommonPort(p.sport, p.proto)
      commonD == isCommonPort(p.dport, p.proto)
      privS == isPrivilegedPort(p.sport)
      privD == isPrivilegedPort(p.dport)
  IN  IF commonS # commonD
        THEN confident(IF commonS THEN DirectionReverts
                       ELSE DirectionRemains)
      ELSE IF p.proto = UDP /\ p.sport = 68 /\ p.dport = 67
        THEN confident(DirectionRemains)
      ELSE IF p.proto = UDP /\ p.sport = 67 /\ p.dport = 68
        THEN confident(DirectionReverts)
      ELSE IF p.sport = 0 /\ isWellKnownPort(p.dport, p.proto)
        THEN confident(DirectionRemains)
      ELSE IF p.dport = 0 /\ isWellKnownPort(p.sport, p.proto)
        THEN confident(DirectionReverts)
      ELSE IF privS # privD
        THEN confident(IF privS THEN DirectionReverts
                       ELSE DirectionRemains)
      ELSE IF p.sport > p.dport THEN unconfident(DirectionRemains)
      ELSE IF p.sport < p.dport THEN unconfident(DirectionReverts)
      ELSE unconfident(DirectionRemains)

\* ClassifyPacketDirection, with the confidence of the rule that decided
ClassifyPacketDirection(p) ==
  IF p.proto = ICMP /\ p.auxInfo = 8 THEN confident(DirectionRemains)
  ELSE IF p.proto = ICMP /\ p.auxInfo = 0 THEN confident(DirectionReverts)
  ELSE IF p.proto = ICMPv6 /\ p.auxInfo = 128
    THEN confident(DirectionRemains)
  ELSE IF p.proto = ICMPv6 /\ p.auxInfo = 129
    THEN confident(DirectionReverts)
  ELSE IF p.proto = ICMPv6 /\ p.auxInfo = 134
    THEN confident(DirectionRemains)
  ELSE classifyByPorts(p)

\* the key of a packet (EPHash: source and destination address, destination
\* and source port, protocol)
epHash(p) ==
  [sip |-> p.sip, dip |-> p.dip, dport |-> p.dport, sport |-> p.sport,
   proto |-> p.proto]

\* the key under which the flow of a packet is stored: the halves of the
\* key are exchanged when the direction reverts
canonicalKey(p, dir) ==
  IF dir = DirectionReverts THEN epHash(swap(p)) ELSE epHash(p)

\* the classifier has not run
NoClass == [dir |-> "none", confidenceHigh |-> FALSE, key |-> 0]

\* what the classifier yields for a packet
classify(p) ==
  LET c == ClassifyPacketDirection(p)
  IN  [dir |-> c.dir, confidenceHigh |-> c.confidenceHigh,
       key |-> canonicalKey(p, c.dir)]

-----------------------------------------------------------------------------
(* GPPacket_test.go: the table of TestClassification *)

\* a packet of the table (hosts 1 and 2 for the two addresses of a line)
testParams(sip, dip, sport, dport, proto, auxInfo, expectedDirection) ==
  [input |-> [sip |-> sip, dip |-> dip, sport |-> sport, dport |-> dport,
              proto |-> proto, auxInfo |-> auxInfo],
   expectedDirection |-> expectedDirection]

testCases ==
  {testParams(1, 2, 0, 0, ICMPv6, 128, DirectionRemains),
   testParams(2, 1, 0, 0, ICMPv6, 129, DirectionReverts),
   testParams(1, 2, 0, 0, ICMPv6, 134, DirectionRemains),
   testParams(1, 2, 0, 0, ICMP, 8, DirectionRemains),
   testParams(2, 1, 0, 0, ICMP, 0, DirectionReverts),
   testParams(1, 2, 37485, 17500, TCP, 0, DirectionRemains),
   testParams(2, 1, 17500, 34000, TCP, 0, DirectionReverts),
   testParams(1, 2, 33561, 444, UDP, 0, DirectionRemains),
   testParams(2, 1, 444, 33561, UDP, 0, DirectionReverts),
   testParams(1, 2, 33561, 33560, UDP, 0, DirectionRemains),
   testParams(2, 1, 33560, 33561, UDP, 0, DirectionReverts),
   testParams(1, 2, 445, 444, UDP, 0, DirectionRemains),
   testParams(2, 1, 444, 445, UDP, 0, DirectionReverts),
   testParams(1, 2, 33561, 33561, UDP, 0, DirectionRemains),
   testParams(1, 2, 444, 444, UDP, 0, DirectionRemains),
   testParams(1, 2, 68, 67, UDP, 0, DirectionRemains),
   testParams(1, 2, 67, 68, UDP, 0, DirectionReverts),
   testParams(1, 2, 0, 53, UDP, 0, DirectionRemains),
   testParams(1, 2, 0, 53, TCP, 0, DirectionRemains),
   testParams(1, 2, 0, 80, TCP, 0, DirectionRemains),
   testParams(1, 2, 0, 443, TCP, 0, DirectionRemains),
   testParams(1, 1, 33561, 33561, UDP, 0, DirectionRemains),
   testParams(1, 1, 444, 444, UDP, 0, DirectionRemains),
   testParams(1, 1, 0, 53, UDP, 0, DirectionRemains)}

\* TestClassification: the direction expected for the packets of the table
expectedDirection(p) ==
  (CHOOSE t \in testCases : t.input = p).expectedDirection

-----------------------------------------------------------------------------
(* The classifier: specification.  A packet is classified, then the packet
   of the opposite direction *)

ClassifierInputs == Packets \cup {t.input : t \in testCases}

CLInit ==
  /\ NewCapture
  /\ APIIdle
  /\ GPIdle
  /\ flowMap = 0 /\ aggMap = 0 /\ flHist = 0
  /\ pkt \in ClassifierInputs
  /\ cls = NoClass

\* ClassifyPacketDirection(pkt) and the key the packet is stored under
ClassifyPacket ==
  /\ cls = NoClass
  /\ cls' = classify(pkt)
  /\ UNCHANGED <<captureVars, apiVars, gpVars, flowMap, aggMap, flHist, pkt>>

\* the next packet is the one of the opposite direction
SwapPacket ==
  /\ cls # NoClass
  /\ pkt' = swap(pkt)
  /\ cls' = NoClass
  /\ UNCHANGED <<captureVars, apiVars, gpVars, flowMap, aggMap, flHist>>

CLNext == ClassifyPacket \/ SwapPacket

ClassifySpec == CLInit /\ [][CLNext]_vars

-----------------------------------------------------------------------------
(* FlowLog: the live map of flows, Add and Rotate *)

\* totalLen of the packets added
TotalLen == 128

\* a map without flows
emptyFlowMap == [k \in {} |-> 0]

\* the map m with the flow f under the key k
withFlow(m, k, f) ==
  [j \in DOMAIN m \cup {k} |-> IF j = k THEN f ELSE m[j]]

\* the map m without the keys outside the set keep
restrictedTo(m, keep) == [j \in DOMAIN m \cap keep |-> m[j]]

\* the flow of a first packet: the packet counts for the forward direction
NewFlow(c) ==
  [nPacketsForward |-> 1, nBytesForward |-> TotalLen,
   nPacketsReverse |-> 0, nBytesReverse |-> 0,
   directionConfidenceHigh |-> c.confidenceHigh]

\* a further packet of a flow, with the confidence of its flow taken from
\* the packet
UpdateFlowLastConfidence(f, c) ==
  IF c.dir = DirectionRemains
    THEN [f EXCEPT !.nPacketsForward = @ + 1,
                   !.nBytesForward = @ + TotalLen,
                   !.directionConfidenceHigh = c.confidenceHigh]
    ELSE [f EXCEPT !.nPacketsReverse = @ + 1,
                   !.nBytesReverse = @ + TotalLen,
                   !.directionConfidenceHigh = c.confidenceHigh]

\* a further packet of a flow: counted for the forward direction when its
\* direction is that of the key, for the reverse direction otherwise; a
\* confident classification sets directionConfidenceHigh
UpdateFlow(f, c) ==
  IF c.dir = DirectionRemains
    THEN [f EXCEPT !.nPacketsForward = @ + 1,
                   !.nBytesForward = @ + TotalLen,
                   !.directionConfidenceHigh = @ \/ c.confidenceHigh]
    ELSE [f EXCEPT !.nPacketsReverse = @ + 1,
                   !.nBytesReverse = @ + TotalLen,
                   !.directionConfidenceHigh = @ \/ c.confidenceHigh]

\* no packet since the counters were reset
HasBeenIdle(f) == f.nPacketsForward = 0 /\ f.nPacketsReverse = 0

\* the flow as it is, its counters not set to zero
KeepCounters(f) == f

\* the counters set to zero; the key and the confidence stay
Reset(f) ==
  [f EXCEPT !.nPacketsForward = 0, !.nBytesForward = 0,
            !.nPacketsReverse = 0, !.nBytesReverse = 0]

\* FlowLog.Add: the map after the packet p was added
Add(m, p) ==
  LET c == classify(p)
  IN  IF c.key \in DOMAIN m
        THEN [m EXCEPT ![c.key] = UpdateFlow(@, c)]
        ELSE withFlow(m, c.key, NewFlow(c))

\* the rotation that releases every confident flow: the confident flows go
\* to the snapshot and leave the live map, the others stay with their
\* counters reset
transferAndAggregateReleasing(m) ==
  LET confidentKeys == {k \in DOMAIN m : m[k].directionConfidenceHigh}
  IN  [agg |-> restrictedTo(m, confidentKeys),
       live |-> [k \in DOMAIN m \ confidentKeys |-> Reset(m[k])]]

\* the rotation that keeps the confident flows that had no packet
transferAndAggregateKeepingIdle(m) ==
  LET active == {k \in DOMAIN m :
                   m[k].directionConfidenceHigh /\ ~HasBeenIdle(m[k])}
  IN  [agg |-> restrictedTo(m, active),
       live |-> [k \in DOMAIN m |-> Reset(m[k])]]

\* transferAndAggregate: the snapshot (agg) and the new live map.  The
\* confident flows that had packets since the last rotation go to the
\* snapshot and stay in the live map with their counters reset; the
\* confident flows without packets are dropped; the flows without a
\* confident direction stay in the live map with their counters reset
transferAndAggregate(m) ==
  LET active == {k \in DOMAIN m :
                   m[k].directionConfidenceHigh /\ ~HasBeenIdle(m[k])}
      retained == {k \in DOMAIN m : ~m[k].directionConfidenceHigh}
  IN  [agg |-> restrictedTo(m, active),
       live |-> [k \in active \cup retained |-> Reset(m[k])]]

-----------------------------------------------------------------------------
(* The flow log: specification.  Packets are added to one FlowLog and the
   log is rotated, one call after the other *)

MaxAdds == 3
MaxRotates == 2

\* the packets added: ICMP echo request, its reply, a destination
\* unreachable message between the same hosts; UDP with the same ephemeral
\* port on both sides; UDP from an ephemeral to a privileged port and back
FlowPackets ==
  {[sip |-> 1, dip |-> 2, sport |-> 0, dport |-> 0, proto |-> ICMP,
    auxInfo |-> 8],
   [sip |-> 2, dip |-> 1, sport |-> 0, dport |-> 0, proto |-> ICMP,
    auxInfo |-> 0],
   [sip |-> 1, dip |-> 2, sport |-> 0, dport |-> 0, proto |-> ICMP,
    auxInfo |-> 3],
   [sip |-> 1, dip |-> 2, sport |-> 33561, dport |-> 33561, proto |-> UDP,
    auxInfo |-> 0],
   [sip |-> 1, dip |-> 2, sport |-> 33561, dport |-> 444, proto |-> UDP,
    auxInfo |-> 0],
   [sip |-> 2, dip |-> 1, sport |-> 444, dport |-> 33561, proto |-> UDP,
    auxInfo |-> 0]}

\* the keys of the flows of these packets
FlowKeys == {classify(p).key : p \in FlowPackets}

\* the calls made so far: their numbers, the last one, the number of Add
\* calls for each key since the last Rotate, and whether every flow had a
\* confident direction and packets when the last Rotate was called
NoFlowCalls ==
  [adds |-> 0, rotates |-> 0, last |-> "none",
   since |-> [k \in FlowKeys |-> 0], allActive |-> FALSE]

NoPacket ==
  [sip |-> 0, dip |-> 0, sport |-> 0, dport |-> 0, proto |-> 0,
   auxInfo |-> 0]

\* NewFlowLog
FLInit ==
  /\ NewCapture
  /\ APIIdle
  /\ GPIdle
  /\ flowMap = emptyFlowMap
  /\ aggMap = emptyFlowMap
  /\ flHist = NoFlowCalls
  /\ pkt = NoPacket
  /\ cls = NoClass

\* flowLog.Add(ipLayer, pktType, totalLen)
FLAdd(p) ==
  /\ flHist.adds < MaxAdds
  /\ pkt' = p
  /\ cls' = classify(p)
  /\ flowMap' = Add(flowMap, p)
  /\ flHist' = [flHist EXCEPT !.adds = @ + 1, !.last = "Add",
                              !.since[classify(p).key] = @ + 1]
  /\ UNCHANGED <<captureVars, apiVars, gpVars, aggMap>>

\* flowLog.Rotate()
FLRotate ==
  /\ flHist.rotates < MaxRotates
  /\ LET r == transferAndAggregate(flowMap)
     IN  /\ aggMap' = r.agg
         /\ flowMap' = r.live
  /\ flHist' = [flHist EXCEPT
                  !.rotates = @ + 1, !.last = "Rotate",
                  !.since = [k \in FlowKeys |-> 0],
                  !.allActive =
                    \A k \in DOMAIN flowMap :
                      /\ flowMap[k].directionConfidenceHigh
                      /\ ~HasBeenIdle(flowMap[k])]
  /\ UNCHANGED <<captureVars, apiVars, gpVars, pkt, cls>>

FLNext ==
  \/ \E p \in FlowPackets : FLAdd(p)
  \/ FLRotate

FlowSpec == FLInit /\ [][FLNext]_vars

-----------------------------------------------------------------------------
(* server/status.go: the status endpoint *)

StatusOK == 200
StatusNoContent == 204

\* the interfaces a capture may run on, and one no capture runs on
Interfaces == {"eth0", "eth1", "eth2"}
RequestedInterfaces == Interfaces \cup {"lo"}

\* the parameter of a request that names no interface
AllInterfaces == ""

\* no request was served
NoResponse == [iface |-> "none", StatusCode |-> 0, Statuses |-> <<>>]

\* captureManager.Status(ifaces...): a map from interfaces to the state of
\* their captures, for those of the named interfaces (all, if none is named)
\* that have a capture which answered
managerStatus(ifaces) ==
  LET asked == IF ifaces = {} THEN captureManager
               ELSE ifaces \cap captureManager
  IN  UNION {[answered -> {StateCapturing, StateError}] :
               answered \in SUBSET asked}

\* the handler answering 200 whatever the statuses
getStatusAlwaysOK(iface, Statuses) ==
  [iface |-> iface, StatusCode |-> StatusOK, Statuses |-> Statuses]

\* getStatus: the response to a request for iface, given what the capture
\* manager returned
getStatus(iface, Statuses) ==
  [iface |-> iface,
   StatusCode |-> IF Cardinality(DOMAIN Statuses) = 0 THEN StatusNoContent
                  ELSE StatusOK,
   Statuses |-> Statuses]

-----------------------------------------------------------------------------
(* The status endpoint: specification.  Requests are served one after the
   other by a server whose capture manager holds some captures *)

STInit ==
  /\ NewCapture
  /\ GPIdle
  /\ FLIdle
  /\ captureManager \in SUBSET Interfaces
  /\ resp = NoResponse

\* GET with the parameter iface
ServeStatus(iface) ==
  /\ \E Statuses \in managerStatus(IF iface # AllInterfaces THEN {iface}
                                   ELSE {}) :
       resp' = getStatus(iface, Statuses)
  /\ UNCHANGED <<captureVars, gpVars, flVars, captureManager>>

STNext == \E iface \in RequestedInterfaces \cup {AllInterfaces} :
            ServeStatus(iface)

StatusSpec == STInit /\ [][STNext]_vars

-----------------------------------------------------------------------------
(* The capture: specification *)

Init == NewCapture /\ GPIdle /\ FLIdle /\ APIIdle

WorkerStep ==
  \/ Run
  \/ \E created \in BOOLEAN : initializing(created)
  \/ capturing
  \/ capturingCtxDone
  \/ \E c \in Callers : capturingCmd(c)
  \/ \E p \in Procs : capturingErr(p)
  \/ inError
  \/ inErrorCtxDone
  \/ \E c \in Callers : inErrorCmd(c)
  \/ closing
  \/ executeStatus
  \/ executeErrors
  \/ executeFlows
  \/ executeUpdate
  \/ executeRotate
  \/ executeRotateReturn
  \/ executeRotateStore

ProcessStep ==
  \/ \E p \in Procs : processNextPacket(p)
  \/ \E p \in Procs : processPopulate(p)
  \/ \E p \in Procs : processAdded(p)
  \/ \E p \in Procs, n \in RunLengths : processMalformed(p, n)
  \/ \E p \in Procs : processCaptureError(p)
  \/ \E p \in Procs : processStopped(p)

CallerStep ==
  \/ \E c \in Callers : Return(c)
  \/ \E c \in Callers : SendOnClosed(c)

Next ==
  \/ WorkerStep
  \/ ProcessStep
  \/ CallerStep
  \/ \E c \in Callers, cmd \in Commands : Call(c, cmd)
  \/ Cancel

Spec == Init /\ [][Next]_vars

\* The Go scheduler runs every goroutine that can take a step: the worker,
\* the packet tasks, and the callers once their call is answered.  Nothing
\* obliges the environment to issue calls or to cancel the context.
FairSpec ==
  /\ Spec
  /\ WF_vars(WorkerStep)
  /\ WF_vars(ProcessStep)
  /\ WF_vars(CallerStep)

-----------------------------------------------------------------------------
(* The capture: properties *)

\* the command the worker is executing yields no next state
yieldsNoNextState ==
  /\ fsmPc \in {"execute", "RotateStore"}
  /\ fsmCmd.type = "Update" => ~needReinitialization(fsmCmd.cfg)

\* the worker finishes the command it is executing
commandExecuted ==
  fsmPc \in {"execute", "RotateStore"} /\ fsmCmd' = NoCmd

\* C1: in Capturing, when the worker has executed a command that yields no
\* next state (Status, Errors, Flows, Rotate, Update with the current
\* config), the capture stays in Capturing and the worker is back at the
\* select on context, command channel and error channel.
C1_WorkerKeepsServing ==
  [][(state = StateCapturing /\ yieldsNoNextState /\ commandExecuted)
       => (state' = StateCapturing /\ fsmPc' = "capturingSelect")]_vars

\* C1: a command was answered in Capturing, the capture is neither closed
\* nor cancelled, and the worker's loop has ended
C1_WorkerGone ==
  /\ state = StateCapturing
  /\ fsmPc = "returned"
  /\ ~closed
  /\ ~ctxDone

\* the calls C2 is about: Status, Rotate, Update with the active config, on
\* a capture whose context is not cancelled
C2_Scope ==
  /\ ~ctxDone
  /\ \A c \in Callers :
       /\ callerCmd[c].type \in {"none", "Status", "Rotate", "Update"}
       /\ callerCmd[c].type = "Update" => callerCmd[c].cfg = config

\* C2: as long as only Status, Rotate and Update (with the active config)
\* are called on a running capture, every call returns: no caller stays
\* blocked on the command channel or on its reply.
C2_EveryCallReturns ==
  ([]C2_Scope) =>
    \A c \in Callers : (callerPc[c] \in {"send", "wait"}) ~> (callerPc[c] = "idle")

\* C2: a caller holds the lock and is blocked sending on the command channel
\* of a capture in Capturing that is not closed, with no worker left
C2_CallerBlocked ==
  /\ C1_WorkerGone
  /\ \E c \in Callers : callerPc[c] = "send" /\ mutex = c
  /\ \A c \in Callers : callerCmd[c].type \in {"none", "Status"}

\* C4: FlowLog.Add (packet task) and FlowLog.Rotate (worker, Rotate command)
\* are never in progress at the same time.
C4_AddRotateExclusive ==
  ~(fsmPc = "Rotate" /\ \E p \in Procs : procPc[p] = "Add")

\* C5: once the context is cancelled with the capture in Capturing or Error,
\* the FSM eventually is in Closing with the command channel closed and the
\* capture marked closed (as long as no goroutine panics).
C5_CancelLeadsToClosed ==
  ([]Alive) =>
    ((ctxDone /\ state \in {StateCapturing, StateError})
       ~> (state = StateClosing /\ cmdChanClosed /\ closed))

\* C5: the context is cancelled, the capture is in Capturing and not closed,
\* and the worker has returned
C5_CancelledNotClosed ==
  /\ ctxDone
  /\ state = StateCapturing
  /\ fsmPc = "returned"
  /\ ~closed
  /\ ~cmdChanClosed
  /\ Alive

\* the packet task p holds the fatal error of capturePacket (more than
\* ErrorThreshold consecutive decode failures) and sends it
fatalErrorPending(p) ==
  procPc[p] = "sendErr" /\ tooManyErrors(errcount[p])

\* C9: when more than ErrorThreshold packets in a row failed to decode, the
\* packet task reports the fatal error and the FSM moves to Error (unless the
\* context is cancelled or a goroutine panics first).
C9_FatalErrorLeadsToError ==
  ([](~ctxDone /\ Alive)) =>
    \A p \in Procs : fatalErrorPending(p) ~> (state = StateError)

\* C9: a packet task holds the fatal error, the capture is in Capturing and
\* no worker is left to receive it
C9_FatalErrorUnreceived ==
  /\ \E p \in Procs : fatalErrorPending(p)
  /\ C1_WorkerGone
  /\ Alive

-----------------------------------------------------------------------------
(* The block file: properties (specification GPSpec) *)

\* the timestamps of the successful WriteTimedBlock calls and their payloads
writtenTimestamps ==
  (1..gpHist.fill) \cup {gpHist.written[k].ts : k \in DOMAIN gpHist.written}

payloadOf(ts) ==
  IF ts \in 1..gpHist.fill THEN filledPayload(ts)
  ELSE LET k == CHOOSE k \in DOMAIN gpHist.written :
                  gpHist.written[k].ts = ts
       IN  gpHist.written[k].data

\* ReadTimedBlock(ts) on the object f returns the payload written under ts
readsBack(f, ts) ==
  LET r == ReadTimedBlock(f, disk, ts)
  IN  r.err = "nil" /\ r.data = payloadOf(ts)

\* C3: round trip.  After successful WriteTimedBlock calls only (no call
\* failed or was interrupted after it changed the file), with increasing
\* timestamps, a ReadTimedBlock(ts) call on the open file returns, for every
\* written ts, the payload written under ts; on the object that wrote and on
\* one opened later.
C3_RoundTrip ==
  gpf.open /\ gpHist.clean => \A ts \in writtenTimestamps : readsBack(gpf, ts)

\* C3: a ReadTimedBlock of a written timestamp has failed on a file that
\* only saw successful writes
C3_ReadOfWrittenFails ==
  /\ gpf.open
  /\ gpHist.clean
  /\ gpLast.op = "Read"
  /\ gpLast.err = "Incorrect number of bytes read"
  /\ gpHist.written # <<>>

\* the file was opened after a WriteTimedBlock was interrupted between
\* appending the payload and rewriting the header
openedAfterCrash ==
  gpf.open /\ gpLast.op = "Open" /\ gpHist.crash.pending

C7_WriteAddsOneBlock ==
  [][gpf.open /\ gpLast'.op = "Write" /\ gpLast'.err = "nil"
       /\ gpHist'.calls # gpHist.calls
       => BlocksUsed(gpf'.h).n = BlocksUsed(gpf.h).n + 1]_vars

\* C7: a successful write has taken the last slot
C7_LastSlotWritten ==
  /\ gpf.open
  /\ gpLast.op = "Write"
  /\ gpLast.err = "nil"
  /\ gpf.h.timestamps[NumElements - 1] # 0

\* the header invariant for the arrays h: i is the number of slots in front
\* of the first unused one
headerInvariant(h) ==
  LET i == firstSlot([k \in Slots |-> emptySlot(h, k)])
  IN  /\ \A j \in Slots : j > i => emptySlot(h, j)
      /\ i < NumElements
           => LET s == findSlot(h, nextTs)
              IN  s.err = "nil" /\ s.newPos = i
      /\ i = NumElements => findSlot(h, nextTs).err = "File is full"
      /\ \A j \in 1..(i - 1) : h.blocks[j - 1] < h.blocks[j]
      /\ i > 0 => h.blocks[0] > HeaderSize
      /\ \A j \in 0..(i - 1) : h.timestamps[j] # 0
      /\ Cardinality({h.timestamps[j] : j \in 0..(i - 1)}) = i

\* C8: after any calls of NewGPFile and WriteTimedBlock (successful, failing
\* or interrupted; any timestamp, empty payloads too) the arrays of the
\* object and the header in the file satisfy: the used slots are the slots in
\* front of the first unused slot i, a write with a new timestamp goes to
\* slot i, and over the used slots the offsets strictly increase and the
\* timestamps are nonzero and pairwise distinct.
C8_HeaderInvariant ==
  /\ gpf.open => headerInvariant(gpf.h)
  /\ disk.exists => headerInvariant(decodeHeader(disk.header))

\* C8: a WriteTimedBlock has failed on an object whose arrays hold at least
\* two blocks, one of them with an empty payload, written by this object
C8_AfterFailingWrite ==
  /\ gpf.open
  /\ gpLast.op = "Write"
  /\ gpLast.err # "nil"
  /\ gpHist.fill = 0
  /\ BlocksUsed(gpf.h).n = 2
  /\ \E j \in 0..1 : gpf.h.lengths[j] = 0 /\ gpf.h.blocks[j] # 0

-----------------------------------------------------------------------------
(* The capture: further properties (specifications Spec and FairSpec) *)

\* C11: the step that enters Closing closes the capture source, leaves the
\* capture without source and with an empty errMap, closes the command
\* channel and sets closed; from then on the state stays Closing and the
\* worker takes no further step (it executes no command).
C11_ClosingTerminal ==
  /\ [][state # StateClosing /\ state' = StateClosing
          => /\ captureHandle' = NilHandle
             /\ captureHandle # NilHandle => captureHandle \in handleClosed'
             /\ errMap' = 0
             /\ cmdChanClosed'
             /\ closed']_vars
  /\ [][state = StateClosing
          => /\ state' = StateClosing
             /\ fsmPc = "returned" /\ fsmPc' = "returned"
             /\ fsmCmd' = fsmCmd
             /\ cmdChanClosed' /\ closed'
             /\ config' = config]_vars

\* C11: Closing was entered from a capture with a source, the source is
\* closed, and a call made afterwards was rejected by the closed check
C11_ClosedAfterCapturing ==
  /\ state = StateClosing
  /\ closed /\ cmdChanClosed
  /\ captureHandle = NilHandle
  /\ handleClosed # {}
  /\ \E c \in Callers : callerPc[c] = "wait" /\ reply[c].kind = "closed"

\* the worker, in state Error, finishes the command it received
executedInError ==
  state = StateError /\ fsmPc \in {"execute", "RotateStore"}
    /\ fsmCmd' # fsmCmd

\* C12: the state Error is left only for Closing, after the context was
\* cancelled, or for Initializing, after an Update with a config other than
\* the current one was executed (which resets the capture and stores the
\* config); the select of inError only leads to Closing on cancellation or
\* to a command; every other command executed in Error (Update with the
\* current config, Status, Errors, Flows, Rotate) is answered and leaves
\* the state, the config and the source as they are, the worker back at
\* the select of inError.
C12_ErrorLeftByCancelOrUpdate ==
  /\ [][state = StateError /\ state' # StateError
          => \/ state' = StateClosing /\ ctxDone /\ fsmPc = "closing"
             \/ state' = StateInitializing /\ fsmPc = "initializing"]_vars
  /\ [][state = StateError /\ fsmPc = "inErrorSelect" /\ fsmPc' # fsmPc
          => \/ fsmPc' = "closing" /\ ctxDone
             \/ fsmPc' = "execute"]_vars
  /\ [][executedInError
          => IF fsmCmd.type = "Update" /\ fsmCmd.cfg # config
               THEN /\ fsmPc' = "initializing"
                    /\ config' = fsmCmd.cfg
                    /\ captureHandle' = NilHandle
               ELSE /\ fsmPc' = "inErrorSelect"
                    /\ state' = StateError
                    /\ config' = config
                    /\ captureHandle' = captureHandle
                    /\ fsmCmd.type # "Update"
                         => reply'[fsmCmd.from].kind = fsmCmd.type]_vars
  /\ [][state = StateError /\ fsmPc' = "initializing"
          => fsmPc \in {"execute", "initializing"}]_vars

\* C12: in Error, an Update with the current config and then a Status were
\* executed; the capture is still in Error and the worker at its select
C12_StillInError ==
  /\ state = StateError
  /\ fsmPc = "inErrorSelect"
  /\ callsLeft = MaxCalls - 2
  /\ updatesLeft = MaxUpdates - 1
  /\ \E c \in Callers : reply[c].kind = "Status" /\ reply[c].state = StateError

\* the worker finishes an Update command
updateExecuted ==
  fsmPc = "execute" /\ fsmCmd.type = "Update" /\ fsmCmd' # fsmCmd

\* C13: executing an Update with the current config changes neither the
\* state, the config, the source (not closed, not replaced), errMap,
\* lastRotationStats, the flow log nor packetsLogged, and does not lead to
\* Initializing; executing an Update with another config closes and drops
\* the source, empties errMap, zeroes the source part of lastRotationStats,
\* stores the config and leads to Initializing.
C13_UpdateSameConfigNoOp ==
  /\ [][updateExecuted /\ fsmCmd.cfg = config
          => /\ UNCHANGED <<state, config, captureHandle, handleClosed,
                            nHandles, errMap, errMapId, lastRotationStats,
                            flowLog, packetsLogged>>
             /\ fsmPc' # "initializing"]_vars
  /\ [][updateExecuted /\ fsmCmd.cfg # config
          => /\ config' = fsmCmd.cfg
             /\ captureHandle' = NilHandle
             /\ captureHandle # NilHandle => captureHandle \in handleClosed'
             /\ errMap' = 0
             /\ lastRotationStats'.received = 0
             /\ UNCHANGED <<flowLog, packetsLogged>>
             /\ fsmPc' = "initializing"]_vars
  /\ [][fsmPc = "initializing" /\ fsmPc' # fsmPc
          => state' = StateInitializing]_vars

\* C13: an Update with the current config was executed on a capture that
\* has its first source and has logged a packet
C13_SameConfigExecuted ==
  /\ \E c \in Callers :
       /\ callerCmd[c].type = "Update" /\ callerCmd[c].cfg = config
       /\ reply[c].kind = "done"
  /\ config = "cfgA"
  /\ captureHandle = 1
  /\ handleClosed = {}
  /\ packetsLogged >= 1

\* C14: a caller leaves Update only after the worker has executed its
\* command (cmd.done() was called at the end of execute), or at once when
\* the capture is closed.
C14_UpdateReturnsAfterExecution ==
  [][\A c \in Callers :
       (callerCmd[c].type = "Update" /\ callerPc[c] = "wait"
          /\ callerPc'[c] = "idle")
         => reply[c].kind \in {"done", "closed"}]_vars

\* C14: the caller of an Update with a new config has returned while the
\* worker has received the command and has not executed it: the reset and
\* the new config are still to come
C14_ReturnedBeforeExecution ==
  /\ fsmPc = "execute"
  /\ fsmCmd.type = "Update"
  /\ fsmCmd.cfg # config
  /\ callerPc[fsmCmd.from] = "idle"
  /\ ctxDone

\* C15: every Rotate returns the difference between the absolute values it
\* stores as lastRotationStats and the ones the previous Rotate stored, for
\* the logged packets and for the counters of the source; so the returned
\* values of successive Rotates add up to the absolute values stored by the
\* last one.
C15_RotateReturnsDeltas ==
  [][fsmPc = "RotateStore" /\ fsmPc' # fsmPc
       => /\ lastRotationStats'.logged
               = lastRotationStats.logged + rotateResult.logged
          /\ lastRotationStats'.received
               = lastRotationStats.received + rotateResult.received]_vars

\* C15: a Rotate has returned fewer logged packets than it has stored in
\* lastRotationStats
C15_PacketLostBetweenReads ==
  /\ \E c \in Callers :
       /\ reply[c].kind = "Rotate"
       /\ reply[c].logged < lastRotationStats.logged
       /\ reply[c].logged = 0
  /\ packetsLogged = lastRotationStats.logged
  /\ nHandles = 1

\* C16: Status returns the state the capture is in when the command is
\* executed, the number of packets logged since the last Rotate, and the
\* counters of the source since the last Rotate.
C16_StatusSinceLastRotate ==
  [][fsmPc = "execute" /\ fsmCmd.type = "Status" /\ fsmCmd' # fsmCmd
       => LET r == reply'[fsmCmd.from]
          IN  /\ r.kind = "Status"
              /\ r.state = state
              /\ r.logged = packetsLogged - lastRotationStats.logged
              /\ r.received
                   = tryGetCaptureStats - lastRotationStats.received]_vars

\* C16: a Status executed after a Rotate, with no packet in between,
\* reports no logged packet and the packets the source has received since
\* it was created
C16_StatusAfterRotate ==
  \E c \in Callers :
    /\ reply[c].kind = "Status"
    /\ reply[c].logged = 0
    /\ reply[c].received >= 1
    /\ reply[c].received = lastRotationStats.received
    /\ srcReceived = lastRotationStats.received
    /\ captureHandle # NilHandle

\* C17: the map a caller got from Errors holds what errMap held when the
\* command was executed, whatever the packet task records afterwards
\* (stated for a returned map that is the object c.errMap refers to: the
\* content of that object is errMap).
C17_ErrorsReturnsCopy ==
  \A c \in Callers :
    (errorsResult[c].ref # 0 /\ errorsResult[c].ref = errMapId)
      => errMap = errorsResult[c].count

\* C17: Errors has returned a map to a caller, and the map has more entries
\* now than when it was returned, with no reset in between
C17_ReturnedMapChanged ==
  \E c \in Callers :
    /\ callerPc[c] = "idle"
    /\ errorsResult[c].ref = errMapId
    /\ errorsResult[c].count < errMap

\* C18: when the worker receives the error of a packet task that exceeded
\* the decode-failure threshold it goes to inError with errMap not empty and
\* the flow log as it is; inError sets the state Error and keeps both; in
\* Error, errMap is emptied and the flow log changed by the worker only
\* when the state is left or by a Rotate; a Status executed in Error
\* reports StateError; a Rotate executed in Error takes the flows of the
\* flow log, is answered with them, and the worker is back at its select.
C18_ErrorAfterThreshold ==
  /\ [][(\E p \in Procs : fatalErrorPending(p) /\ procPc'[p] = "exited")
          => /\ fsmPc' = "inError"
             /\ errMap' >= 1
             /\ flowLog' = flowLog]_vars
  /\ [][fsmPc = "inError" /\ fsmPc' # fsmPc
          => /\ state' = StateError
             /\ fsmPc' = "inErrorSelect"
             /\ errMap' = errMap
             /\ flowLog' = flowLog]_vars
  /\ [][(fsmPc = "inError" \/ state = StateError) /\ errMap' < errMap
          => fsmPc' \in {"initializing", "returned"}]_vars
  /\ [][state = StateError /\ fsmPc = "execute" /\ fsmCmd.type = "Status"
          /\ fsmCmd' # fsmCmd
          => reply'[fsmCmd.from].kind = "Status"
               /\ reply'[fsmCmd.from].state = StateError]_vars
  /\ [][state = StateError /\ fsmPc = "Rotate" /\ fsmPc' # fsmPc
          => rotateResult'.agg = flowLog /\ fsmPc' = "RotateStore"]_vars
  /\ [][state = StateError /\ fsmPc = "RotateStore" /\ fsmPc' # fsmPc
          => /\ reply'[fsmCmd.from].kind = "Rotate"
             /\ reply'[fsmCmd.from].agg = rotateResult.agg
             /\ state' = StateError
             /\ fsmPc' = "inErrorSelect"]_vars

\* C18: the capture is in Capturing on its second source with an empty
\* errMap, and the packet task of the first source is still sending the
\* error it raised when it exceeded the threshold, before the Update that
\* reset the capture was executed: the select of capturing can only go to
\* Error, to Closing or to a command
C18_StaleFatalError ==
  /\ state = StateCapturing
  /\ fsmPc = "capturingSelect"
  /\ errMap = 0
  /\ nHandles = 2
  /\ captureHandle = 2
  /\ fatalErrorPending(1)
  /\ procPc[2] \in {"loop", "NextPacket"}


\* The packet tasks that have been started and have neither returned nor
\* crashed: a task blocked sending its error is still running
runningTasks ==
  {p \in Procs : procPc[p] \in {"loop", "NextPacket", "Add", "sendErr"}}

\* C19: at every moment at most one packet task of the capture is running,
\* whatever commands and re-initialisations have been executed
C19_OnePacketTask ==
  Cardinality(runningTasks) <= 1

\* C19: after an Update with a changed config the capture is in Capturing on
\* its second source, the packet task started by this entry is running, and
\* the packet task of the first entry is still in its loop
C19_TwoPacketTasks ==
  /\ state = StateCapturing
  /\ nHandles = 2
  /\ nProcs = 2
  /\ procPc[1] \in {"loop", "NextPacket", "Add"}
  /\ procPc[2] \in {"loop", "NextPacket", "Add"}


-----------------------------------------------------------------------------
(* The block file: further properties (specification GPSpec) *)

\* C20: on an open file BlocksUsed() returns the smallest index whose triple
\* of offset, timestamp and length is all zero, and NumElements (512) when
\* every slot is occupied.
C20_BlocksUsedValue ==
  gpf.open
    => BlocksUsed(gpf.h).n
         = IF \E i \in Slots : emptySlot(gpf.h, i)
             THEN firstSlot([k \in Slots |-> emptySlot(gpf.h, k)])
             ELSE NumElements

\* C20: the file is open and every one of its slots is occupied
C20_AllSlotsOccupied ==
  /\ gpf.open
  /\ \A i \in Slots : ~emptySlot(gpf.h, i)


\* slot i of the arrays h is used
usedSlot(h, i) == ~emptySlot(h, i)

\* C21: WriteTimedBlock(ts, payload) fails with the duplicate-timestamp
\* error exactly when ts is the timestamp of a used slot, and with the
\* file-full error when every slot is used and ts is not among their
\* timestamps; in both cases the file and the header arrays are unchanged;
\* for every other ts on a file that is not full the call is not rejected.
C21_WriteRejections ==
  [][gpf.open /\ gpLast'.op = "Write"
       => LET ts == gpLast'.arg
              dup == \E i \in Slots :
                       usedSlot(gpf.h, i) /\ gpf.h.timestamps[i] = ts
              full == \A i \in Slots : usedSlot(gpf.h, i)
          IN  /\ gpLast'.err = "already exists" <=> dup
              /\ (full /\ ~dup) => gpLast'.err = "File is full"
              /\ gpLast'.err \in {"already exists", "File is full"}
                   => disk' = disk /\ gpf'.h = gpf.h
              /\ (~full /\ ~dup)
                   => gpLast'.err \notin {"already exists", "File is full"}
     ]_vars

\* C21: WriteTimedBlock(0, payload) was rejected as a duplicate on a file
\* that is not full and has no used slot with the timestamp 0
C21_ZeroTimestampRejected ==
  /\ gpf.open
  /\ gpLast.op = "Write"
  /\ gpLast.arg = 0
  /\ gpLast.err = "already exists"
  /\ \E i \in Slots : emptySlot(gpf.h, i)
  /\ \A i \in Slots : usedSlot(gpf.h, i) => gpf.h.timestamps[i] # 0

\* some used slot of the arrays h carries the timestamp ts
present(h, ts) ==
  \E i \in Slots : usedSlot(h, i) /\ h.timestamps[i] = ts

\* C22: ReadBlock(i) on an unused slot fails with the empty-block error;
\* ReadTimedBlock(ts) returns a payload exactly when some used slot carries
\* the timestamp ts, and fails with the not-found error for every other ts.
C22_ReadErrors ==
  [][gpf.open
       => /\ (gpLast'.op = "ReadBlock" /\ emptySlot(gpf.h, gpLast'.arg))
               => gpLast'.err = "is empty"
          /\ gpLast'.op = "Read"
               => /\ gpLast'.err = "nil" <=> present(gpf.h, gpLast'.arg)
                  /\ ~present(gpf.h, gpLast'.arg)
                       => gpLast'.err = "not found"
     ]_vars

\* C22: ReadTimedBlock(0) has failed with the empty-block error on a file
\* that has no used slot with the timestamp 0
C22_ZeroTimestampRead ==
  /\ gpf.open
  /\ gpLast.op = "Read"
  /\ gpLast.arg = 0
  /\ gpLast.err = "is empty"
  /\ ~present(gpf.h, 0)

\* C23: a ReadBlock call whose decompression does not produce the number of
\* bytes declared for the block in the header (the decoder fails or
\* produces another number) fails with the short-read error and returns no
\* buffer.
C23_ShortReadDetected ==
  [][gpf.open /\ gpLast'.op = "ReadBlock" /\ usedSlot(gpf.h, gpLast'.arg)
       => LET r == ReadBlock(gpf, disk, gpLast'.arg)
          IN  r.size # gpf.h.lengths[gpLast'.arg]
                => /\ gpLast'.err = "Incorrect number of bytes read"
                   /\ r.data = <<>>
     ]_vars

\* C23: ReadBlock has returned without an error for the block of 16 bytes
\* in front of the last block of the filled file, read a second time with
\* the handle standing at the last block, whose 9 bytes fill the buffer of
\* 16 only in part
C23_BufferPartlyFilled ==
  /\ gpf.open
  /\ gpLast.op = "ReadBlock"
  /\ gpLast.err = "nil"
  /\ gpLast.arg = NumElements - 3
  /\ gpf.h.lengths[gpLast.arg] = 16
  /\ gpf.pos = gpf.h.blocks[NumElements - 2]

\* int64 values of the range the model holds: the ends of the range, the
\* values around a change of sign and around the byte boundaries
Int64Samples ==
  {-2147483647 - 1, -16777217, -16777216, -65536, -257, -256, -255, -1, 0,
   1, 255, 256, 65535, 65536, 16777215, 16777216, 2147483647}

\* C24: while all WriteTimedBlock calls on the file have succeeded or were
\* rejected, the header on disk decodes to the offset, timestamp and length
\* arrays the open object holds, so that opening the file again yields the
\* same arrays, the same BlocksUsed and the same timestamps; encoding an
\* int64 value and decoding the 8 bytes gives the value back.
C24_HeaderPersistence ==
  /\ \A v \in Int64Samples : DecodeInt64(EncodeInt64(v)) = v
  /\ (gpf.open /\ gpHist.clean) => decodeHeader(disk.header) = gpf.h

\* C24: the file was opened again after a successful WriteTimedBlock, and
\* no call has failed after it changed the file
C24_ReopenedAfterWrite ==
  /\ gpf.open
  /\ gpLast.op = "Open"
  /\ gpHist.clean
  /\ gpHist.written # <<>>
  /\ \E i \in Slots : gpf.h.timestamps[i] = gpHist.written[1].ts

-----------------------------------------------------------------------------
(* The classifier: properties (specification ClassifySpec) *)

\* C29: a packet and the packet with source and destination addresses and
\* ports exchanged are stored under the same canonical key, for every
\* protocol, ICMP type and pair of ports.
C29_BidirectionalKey ==
  cls # NoClass => cls.key = classify(swap(pkt)).key

\* C29: a UDP packet between two hosts with the same port on both sides has
\* been classified
C29_EqualPortsClassified ==
  /\ cls # NoClass
  /\ pkt.proto = UDP
  /\ pkt.sip # pkt.dip
  /\ pkt.sport = pkt.dport
  /\ pkt.sport = 33561

\* C30: ClassifyPacketDirection returns DirectionReverts exactly when the
\* first applicable of these rules makes the source side the server: ICMP /
\* ICMPv6 echo reply; exactly one common port, the source port; DHCP 67 to
\* 68; exactly one privileged port, the source port; otherwise the source
\* port below the destination port.  In every other case it returns
\* DirectionRemains.
C30_DirectionRules ==
  cls # NoClass
    => LET p == pkt
           commonS == isCommonPort(p.sport, p.proto)
           commonD == isCommonPort(p.dport, p.proto)
           reverts ==
             IF p.proto \in {ICMP, ICMPv6}
               THEN \/ p.proto = ICMP /\ p.auxInfo = 0
                    \/ p.proto = ICMPv6 /\ p.auxInfo = 129
             ELSE IF commonS # commonD THEN commonS
             ELSE IF p.proto = UDP /\ {p.sport, p.dport} = {67, 68}
               THEN p.sport = 67
             ELSE IF (p.sport < 1024) # (p.dport < 1024)
               THEN p.sport < 1024
             ELSE p.sport < p.dport
       IN  cls.dir = IF reverts THEN DirectionReverts ELSE DirectionRemains

\* C30: a UDP packet from the zeroed port to a privileged port that is not
\* a common one has been classified
C30_ZeroedPortClassified ==
  /\ cls # NoClass
  /\ pkt.proto = UDP
  /\ pkt.sport = 0
  /\ pkt.dport = 444
  /\ cls.dir = DirectionRemains

-----------------------------------------------------------------------------
(* The flow log: properties (specification FlowSpec) *)

\* a step of Rotate
rotateStep == flHist'.rotates = flHist.rotates + 1

\* a step of Add
addStep == flHist'.adds = flHist.adds + 1

\* all four counters of the flow are zero
countersZero(f) ==
  /\ f.nPacketsForward = 0
  /\ f.nBytesForward = 0
  /\ f.nPacketsReverse = 0
  /\ f.nBytesReverse = 0

\* the flow with the key k stays in the live map over the step, under the
\* same key, with its counters reset and its confidence as it was
staysReset(k) ==
  /\ k \in DOMAIN flowMap'
  /\ countersZero(flowMap'[k])
  /\ flowMap'[k].directionConfidenceHigh =
       flowMap[k].directionConfidenceHigh

allFlowsActive ==
  \A k \in DOMAIN flowMap :
    flowMap[k].directionConfidenceHigh /\ ~HasBeenIdle(flowMap[k])

C27_ConfidenceMonotonic ==
  [][\A k \in DOMAIN flowMap \cap DOMAIN flowMap' :
       flowMap[k].directionConfidenceHigh =>
         flowMap'[k].directionConfidenceHigh]_vars

\* C27: the last packet added was classified without confidence, its flow
\* had a confident direction before, and the flow was kept by a Rotate
\* after that
C27_ConfidentFlowSawUnconfidentPacket ==
  /\ flHist.last = "Rotate"
  /\ ~cls.confidenceHigh
  /\ cls.key \in DOMAIN flowMap
  /\ flowMap[cls.key].directionConfidenceHigh

\* the packets counted in the flows of the map m, both directions
RECURSIVE packetsOf(_)
packetsOf(m) ==
  IF DOMAIN m = {}
    THEN 0
    ELSE LET k == CHOOSE j \in DOMAIN m : TRUE
         IN  m[k].nPacketsForward + m[k].nPacketsReverse
               + packetsOf(restrictedTo(m, DOMAIN m \ {k}))

\* the number of Add calls since the last Rotate for the keys in keys
RECURSIVE addsSince(_)
addsSince(keys) ==
  IF keys = {}
    THEN 0
    ELSE LET k == CHOOSE j \in keys : TRUE
         IN  flHist.since[k] + addsSince(keys \ {k})

-----------------------------------------------------------------------------
(* The classifier: confidence (specification ClassifySpec) *)

\* C31: the classifier sets directionConfidenceHigh = true exactly when the
\* direction was decided by one of the rules 1 to 5 (ICMP echo, common
\* server port, DHCP, zeroed ephemeral port, privileged against ephemeral)
\* and false when it was decided by rule 6 (higher against lower port) or
\* rule 7 (equal ports)
C31_ConfidenceByRule ==
  cls # NoClass =>
    /\ decidingRule(pkt) \in 1..7
    /\ cls.confidenceHigh <=> decidingRule(pkt) \in 1..5

\* C31: a packet was classified by the lower port, without confidence
C31_LowerPortDecided ==
  /\ cls # NoClass
  /\ decidingRule(pkt) = 6
  /\ ~cls.confidenceHigh

-----------------------------------------------------------------------------
(* The status endpoint: properties (specification StatusSpec) *)

\* C32: the status endpoint answers with status code 200 when the capture
\* manager returned at least one interface status and with 204 when it
\* returned none, for a request naming one interface and for a request for
\* all interfaces
C32_StatusCode ==
  resp # NoResponse =>
    resp.StatusCode = IF DOMAIN resp.Statuses = {} THEN 204 ELSE 200

\* C32: a request naming one interface was answered without any status
C32_NamedInterfaceNoContent ==
  /\ resp # NoResponse
  /\ resp.iface \in captureManager
  /\ DOMAIN resp.Statuses = {}

-----------------------------------------------------------------------------
(* The block file: reads and failed writes (specification GPSpec) *)

\* the position at which the bytes of the block start
startOf(h, block) ==
  IF block # 0 THEN h.blocks[block - 1] ELSE HeaderSize

\* ReadBlock on the object f with the seek made whatever was read before
readAfterSeek(f, d, block) ==
  ReadBlock([f EXCEPT !.lastSeekPos = -1], d, block)

\* C33: the seek-avoidance cache of ReadBlock never changes what is read:
\* ReadBlock(i) on a used slot returns what it returns when it seeks to the
\* end offset of block i - 1 (12,288 for i = 0), whichever blocks were read
\* before, and the seek is skipped only when the handle stands at that
\* position
C33_SeekCacheTransparent ==
  [][gpf.open /\ gpLast'.op = "ReadBlock" /\ usedSlot(gpf.h, gpLast'.arg)
       => LET block == gpLast'.arg
              r == ReadBlock(gpf, disk, block)
              s == readAfterSeek(gpf, disk, block)
          IN  /\ r.err = s.err
              /\ r.data = s.data
              /\ startOf(gpf.h, block) = gpf.lastSeekPos
                   => gpf.pos = startOf(gpf.h, block)
     ]_vars

\* C33: ReadBlock of a used slot has failed with the handle standing behind
\* the block, at the end of the file, where a read after a seek returns the
\* payload
C33_SecondReadFailed ==
  /\ gpf.open
  /\ gpLast.op = "ReadBlock"
  /\ usedSlot(gpf.h, gpLast.arg)
  /\ gpLast.err = "Incorrect number of bytes read"
  /\ gpf.lastSeekPos = startOf(gpf.h, gpLast.arg)
  /\ readAfterSeek(gpf, disk, gpLast.arg).err = "nil"

-----------------------------------------------------------------------------
(* The capture: further properties (specification Spec) *)

\* C34: no public call sends on the command channel after the FSM worker
\* has closed it: a call is served before the close or rejected by the
\* closed check, and no caller stands at its send (or has panicked in it)
\* once the channel is closed
C34_NoSendOnClosedChannel ==
  \A c \in Callers :
    /\ callerPc[c] = "send" => ~cmdChanClosed
    /\ callerPc[c] # "panic"

\* C34: a caller that passed the closed check stands at its send on the
\* command channel and the worker has closed the channel
C34_SenderAtClosedChannel ==
  \E c \in Callers :
    /\ callerPc[c] = "send"
    /\ cmdChanClosed
    /\ ctxDone
    /\ state = StateClosing

\* C35: every public method called on a capture that is already closed
\* (Status, Errors, Flows, Update and Rotate alike) returns at once with its
\* zero result, without sending a command and without blocking; Run on a
\* closed capture returns without running the state machine
C35_ClosedCaptureRejectsCalls ==
  [][/\ \A c \in Callers :
          (closed /\ callerPc[c] = "idle" /\ callerPc'[c] # "idle")
            => /\ callerPc'[c] = "wait"
               /\ reply'[c].kind = "closed"
     /\ (closed /\ fsmPc = "new" /\ fsmPc' # "new") => fsmPc' = "returned"
    ]_vars

\* C35: Rotate, called on the capture after the worker has closed it, has
\* sent on the closed command channel
C35_RotateOnClosedCapture ==
  \E c \in Callers :
    /\ callerCmd[c].type = "Rotate"
    /\ callerPc[c] = "panic"
    /\ closed
    /\ fsmPc = "returned"

\* the FSM worker has left Capturing: to Error, to Initializing after an
\* Update, to Closing, or it has returned
leftCapturing ==
  \/ state \in {StateInitializing, StateError, StateClosing}
  \/ fsmPc = "returned"

\* C36: every packet task eventually terminates once the FSM worker has left
\* Capturing: it does not stay blocked forever sending its fatal error on
\* the error channel when no one receives from it any more (as long as no
\* goroutine panics)
C36_PacketTaskTerminates ==
  ([]Alive) =>
    \A p \in Procs :
      (p \in runningTasks /\ leftCapturing) ~> (p \notin runningTasks)

\* C36: a packet task stands at its send on the error channel, the context
\* was cancelled, the worker has run closing and has returned
C36_SenderLeftBehind ==
  /\ \E p \in Procs : procPc[p] = "sendErr"
  /\ state = StateClosing
  /\ closed
  /\ fsmPc = "returned"
  /\ Alive

\* the sources created so far: the one the capture holds and the closed ones
createdHandles ==
  handleClosed \cup ({captureHandle} \ {NilHandle})

\* the source created by the Initializing step that started the packet task
\* p: every source created is followed by one entry into capturing, which
\* starts one task
handleOfTask(p) ==
  CHOOSE h \in createdHandles :
    Cardinality({g \in createdHandles : g <= h}) = p

\* C37: whenever a packet task calls NextPacket, the capture's source handle
\* is set (not nil) and is the handle created by the Initializing step that
\* started the task; a reset by the FSM worker never makes a running task
\* use a nil handle or the handle of a later initialisation
C37_TaskUsesItsHandle ==
  [][\A p \in Procs :
       (procPc[p] = "loop" /\ procPc'[p] # "loop")
         => /\ captureHandle # NilHandle
            /\ procPc'[p] = "NextPacket"
            /\ procHandle'[p] = handleOfTask(p)]_vars

\* C37: a packet task has called NextPacket on the nil handle that a reset
\* left while the task was between two iterations
C37_NilHandleUsed ==
  \E p \in Procs :
    /\ procPc[p] = "panic"
    /\ captureHandle = NilHandle
    /\ handleOfTask(p) \in handleClosed

\* the position at which the file ends
endOfFile(d) == HeaderSize + Len(d.data)

\* C38: for every used slot i the recorded offset is the file position at
\* which the compressed bytes of block i end, so ReadBlock(i) reads the
\* bytes written for block i; also for blocks written after an earlier
\* WriteTimedBlock was interrupted or failed after it appended bytes and
\* before it rewrote the header.  (Bytes are only appended and the offsets of
\* used slots stay, so the property is one of the call that writes block i.)
C38_OffsetIsEndOfBlock ==
  [][(gpf.open /\ gpLast'.op = "Write" /\ gpLast'.err = "nil")
       => LET i == findSlot(gpf.h, gpLast'.arg).newPos
              written == gpHist'.written[Len(gpHist'.written)]
          IN  /\ gpf'.h.blocks[i] = endOfFile(disk')
              /\ readAfterSeek(gpf', disk', i).err = "nil"
              /\ readAfterSeek(gpf', disk', i).data = written.data
     ]_vars

\* C38: WriteTimedBlock has succeeded on a file to which an earlier call
\* appended bytes without recording them, and the offset of the new block
\* lies in front of the end of the file
C38_OffsetBeforeEndOfFile ==
  /\ gpf.open
  /\ gpLast.op = "Write"
  /\ gpLast.err = "nil"
  /\ ~gpHist.clean
  /\ gpf.h.blocks[lastUsed(gpf.h)] < endOfFile(disk)

\* C39: a WriteTimedBlock call that returns an error, at whichever step it
\* fails (duplicate timestamp, file full, opening the file, compressing the
\* payload, rewriting the header), leaves the offset, timestamp and length
\* arrays of the object as they were before the call, so BlocksUsed and the
\* timestamps found by ReadTimedBlock are unchanged
C39_FailedWriteKeepsArrays ==
  [][(gpf.open /\ gpLast'.op = "Write" /\ gpLast'.err # "nil")
       => /\ gpf'.h = gpf.h
          /\ BlocksUsed(gpf'.h) = BlocksUsed(gpf.h)
          /\ \A ts \in ReadInputs : present(gpf'.h, ts) <=> present(gpf.h, ts)
     ]_vars

\* C39: WriteTimedBlock has returned the error of the header rewrite and the
\* arrays of the object hold the block the header in the file does not have
C39_HeaderRewriteFailed ==
  /\ gpf.open
  /\ gpLast.op = "Write"
  /\ gpLast.err = "header rewrite failed"
  /\ present(gpf.h, gpLast.arg)
  /\ ~present(decodeHeader(disk.header), gpLast.arg)

\* a step in which the worker runs reset (it installs a new error map)
resetStep == errMapId' # errMapId

\* C40: a reset of the capture (on Update with a changed config, or on
\* Closing) closes and drops the capture source, replaces errMap by an empty
\* map and zeroes the capture-source part of lastRotationStats, and leaves
\* the flow log contents, packetsLogged and the PacketsLogged part of
\* lastRotationStats unchanged, so the packets logged before the reset are
\* still reported by the next Rotate
C40_ResetFrame ==
  [][resetStep =>
       /\ captureHandle' = NilHandle
       /\ captureHandle # NilHandle => captureHandle \in handleClosed'
       /\ errMap' = 0
       /\ lastRotationStats'.received = 0
       /\ flowLog' = flowLog
       /\ packetsLogged' = packetsLogged
       /\ lastRotationStats'.logged = lastRotationStats.logged
       /\ packetsLogged' - lastRotationStats'.logged
            = packetsLogged - lastRotationStats.logged]_vars

\* C40: the worker has run reset for an Update with a changed config, on a
\* capture that had logged packets; the source is closed and dropped, the
\* flow log and the counter of logged packets are in place
C40_ResetAfterPackets ==
  /\ fsmPc = "initializing"
  /\ state = StateCapturing
  /\ captureHandle = NilHandle
  /\ handleClosed # {}
  /\ errMap = 0
  /\ flowLog > 0
  /\ packetsLogged > lastRotationStats.logged

=============================================================================
